---------------------------- MODULE Spec2Model ----------------------------
(***************************************************************************)
(* Model of the custom HTTP server: the connection loop of                 *)
(* mhttp/server.py, the request reader of mhttp/socket_wrapper.py and the  *)
(* spill-to-disk body factory of mhttp/files.py.                           *)
(*                                                                         *)
(* Byte strings are sequences of small naturals.  The file system is the   *)
(* function disk from the paths of the existing temp files to their        *)
(* contents.  A Python exception is the name of its class, "none" when     *)
(* nothing was raised.                                                     *)
(***************************************************************************)
EXTENDS Integers, Sequences, FiniteSets, TLC

VARIABLES
    disk,        \* temp directory: path -> bytes of every existing temp file
    nextPath,    \* source of fresh uuid4 file names (tempfiles.get_temp_file)
    fac,         \* a TempFileFactory driven on its own (SpecFactory)
    appended,    \* history: the bytes given to fac.append_to_file so far
    fbody,       \* the TempFile last returned by fac.get_file
    fop,         \* the last operation applied to fac and the exception it raised
    pc,          \* position of the worker in HttpServer.handle_client
    sockClosed,  \* whether the connection's socket has been closed
    reqNo,       \* number of get_request calls made on the connection
    wireHead,    \* start line and header section of the request last put on the wire
    readErr,     \* what the last get_request raised: [exc, code, msg]
    request,     \* handle_client's local `request` (the last HttpRequest built)
    handlerErr,  \* what the last handle_request raised: [exc, code, msg]
    handled,     \* whether the handler was invoked for the current request
    response,    \* the HttpResponse about to be, or last, passed to send_response
    emitted,     \* the send_response calls of the current iteration: [code, text, ok]
    logged,      \* number of log_error calls
    leave,       \* how control leaves the current try: "none", "break" or an exception
    sessions,    \* keys (token hashes) held by the SessionManager
    nextToken,   \* source of fresh session tokens (secrets.token_bytes)
    tf,          \* a TempFile handle driven on its own (SpecBody)
    tfdisk,      \* the files that exist while tf is driven: path -> bytes
    tfop,        \* the last operation applied to tf and the exception it raised
    unlinks,     \* number of times the temp file of tf left the temp directory
    rwire,       \* the request put on the wire for one get_request call (SpecReader)
    rres,        \* what that get_request call returned or raised
    buf,         \* a FifoBuffer driven on its own (SpecBuffer)
    bufOp,       \* the last operation applied to buf and the bytes it returned
    pushed,      \* number of bytes pushed into buf so far
    popped,      \* number of bytes the pop operations of buf returned so far
    bsock,       \* a BufferedSocket and the bytes its peer sent (SpecSocket)
    sockOp,      \* the last read of bsock: the bytes returned or the exception
    cbody,       \* a response body and its chunk size (SpecChunked)
    cwire,       \* the bytes _send_chunked wrote for cbody
    cresult,     \* what the chunked body phase of the reader made of cwire
    hresp,       \* an HttpResponse driven on its own (SpecResponse)
    respOp,      \* the last operation applied to hresp
    sent,        \* what send_response wrote for hresp
    form,        \* a multipart stream and the FormReader over it (SpecForm)
    formOp,      \* the last operation applied to that reader and its outcome
    pform,       \* what parse_form made of the same stream
    rel,         \* a _RelativeReadStream and the stream under it (SpecRelative)
    relOp,       \* the last operation applied to rel and its outcome
    hreq,        \* the header lines of one request and what get_request made of them (SpecHeaders)
    sess,        \* a SessionManager driven on its own against a clock (SpecSession)
    shared,      \* an ExpiringDict used by two workers at once (SpecShared)
    fifo,        \* a FifoBuffer with the bytes pushed and popped so far (SpecFifo)
    tmr,         \* an HttpSocketWrapper and its budgets, read by read (SpecTimer)
    pipe         \* two requests on one connection and what get_request made of them (SpecPipe)

factoryVars == <<disk, nextPath, fac, appended, fbody, fop>>

connVars == <<pc, sockClosed, reqNo, wireHead, readErr, request, handlerErr, handled, response,
              emitted, logged, leave, sessions, nextToken>>

bodyVars == <<tf, tfdisk, tfop, unlinks>>

readerVars == <<rwire, rres>>

bufVars == <<buf, bufOp, pushed, popped>>

sockVars == <<bsock, sockOp>>

chunkVars == <<cbody, cwire, cresult>>

respVars == <<hresp, respOp, sent>>

formVars == <<form, formOp, pform>>

relVars == <<rel, relOp>>

extVars == <<formVars, relVars, hreq, sess, shared, fifo, tmr, pipe>>

libVars == <<bodyVars, readerVars, bufVars, sockVars, chunkVars, respVars, extVars>>

vars == <<factoryVars, connVars, libVars>>

---------------------------------------------------------------------------
(* Bounds of the model *)

\* bytes are 0 .. MaxByte
MaxByte == 1
\* longest byte string handed to one append_to_file call
MaxPiece == 2
\* most bytes appended to one factory
MaxTotal == 3
\* largest max_mem_size a factory is given (64 KiB / 128000 in the program)
MaxMem == 2

\* clear() is applied while at most MaxFiles - 1 temp files have been created
MaxFiles == 2

Byte == 0..MaxByte

RECURSIVE SeqsUpTo(_, _)
\* all sequences over S of length at most n
SeqsUpTo(S, n) ==
    IF n = 0 THEN {<<>>}
    ELSE LET shorter == SeqsUpTo(S, n - 1)
         IN  shorter \cup {Append(s, x) : s \in {t \in shorter : Len(t) = n - 1}, x \in S}

Pieces == SeqsUpTo(Byte, MaxPiece)

---------------------------------------------------------------------------
(* mhttp/files.py: TempFile, TempFileSmall, TempFileBig *)

\* self.path = None / self.__path = None
NoPath == 0

\* no body at all (HttpRequest.body is None)
NoBody == [kind |-> "none", content |-> <<>>, hasContent |-> FALSE,
           path |-> NoPath, size |-> 0]

\* TempFileSmall(content)
TempFileSmall(content) ==
    [kind |-> "small", content |-> content, hasContent |-> TRUE,
     path |-> NoPath, size |-> 0]

\* TempFileBig(path, size)
TempFileBig(path, size) ==
    [kind |-> "big", content |-> <<>>, hasContent |-> FALSE,
     path |-> path, size |-> size]

\* the temp directory holding no file
EmptyDisk == [p \in {} |-> <<>>]

\* os.remove(path) on the temp directory
RemoveFile(d, path) == [p \in (DOMAIN d) \ {path} |-> d[p]]

\* open(path, "wb") followed by the writes: the file holds exactly bytes
WriteFile(d, path, bytes) == [p \in (DOMAIN d) \cup {path} |-> IF p = path THEN bytes ELSE d[p]]

\* TempFile.size: len(content) in memory, the size recorded at construction on disk
BodySize(b) ==
    CASE b.kind = "small" -> Len(b.content)
      [] b.kind = "big"   -> b.size
      [] OTHER            -> 0

---------------------------------------------------------------------------
(* mhttp/files.py: TempFileFactory *)

\* TempFileFactory.__init__(max_mem_size)
TempFileFactoryNew(max_mem_size) ==
    [stream |-> "None", content |-> <<>>, has_file |-> FALSE, path |-> NoPath,
     size |-> 0, max_mem_size |-> max_mem_size]

\* a file object is true whether it is open or closed; only None is false
StreamTruthy(f) == f.stream # "None"

\* mutant: the spill writes only the new bytes, the buffered ones are lost
AppendToFileLosesBuffer(f, d, np, received) ==
    IF StreamTruthy(f)
    THEN IF f.stream = "closed"
         THEN [fac |-> f, disk |-> d, next |-> np, exc |-> "ValueError"]
         ELSE [fac |-> [f EXCEPT !.size = @ + Len(received)],
               disk |-> WriteFile(d, f.path, d[f.path] \o received),
               next |-> np, exc |-> "none"]
    ELSE IF Len(f.content) + Len(received) > f.max_mem_size
         THEN [fac |-> [f EXCEPT !.size = Len(f.content) + Len(received),
                                 !.path = np, !.stream = "open", !.content = <<>>],
               disk |-> WriteFile(d, np, received),
               next |-> np + 1, exc |-> "none"]
         ELSE [fac |-> [f EXCEPT !.content = @ \o received],
               disk |-> d, next |-> np, exc |-> "none"]

\* mutant: an append to the spilled file forgets to count its bytes
AppendToFileNoCount(f, d, np, received) ==
    IF StreamTruthy(f)
    THEN IF f.stream = "closed"
         THEN [fac |-> f, disk |-> d, next |-> np, exc |-> "ValueError"]
         ELSE [fac |-> f,
               disk |-> WriteFile(d, f.path, d[f.path] \o received),
               next |-> np, exc |-> "none"]
    ELSE IF Len(f.content) + Len(received) > f.max_mem_size
         THEN [fac |-> [f EXCEPT !.size = Len(f.content) + Len(received),
                                 !.path = np, !.stream = "open", !.content = <<>>],
               disk |-> WriteFile(d, np, f.content \o received),
               next |-> np + 1, exc |-> "none"]
         ELSE [fac |-> [f EXCEPT !.content = @ \o received],
               disk |-> d, next |-> np, exc |-> "none"]

\* TempFileFactory.append_to_file(received), with np the next fresh file name.
\* A write to the stream closed by get_file raises ValueError.
AppendToFile(f, d, np, received) ==
    IF StreamTruthy(f)
    THEN IF f.stream = "closed"
         THEN [fac |-> f, disk |-> d, next |-> np, exc |-> "ValueError"]
         ELSE [fac |-> [f EXCEPT !.size = @ + Len(received)],
               disk |-> WriteFile(d, f.path, d[f.path] \o received),
               next |-> np, exc |-> "none"]
    ELSE IF Len(f.content) + Len(received) > f.max_mem_size
         THEN [fac |-> [f EXCEPT !.size = Len(f.content) + Len(received),
                                 !.path = np, !.stream = "open", !.content = <<>>],
               disk |-> WriteFile(d, np, f.content \o received),
               next |-> np + 1, exc |-> "none"]
         ELSE [fac |-> [f EXCEPT !.content = @ \o received],
               disk |-> d, next |-> np, exc |-> "none"]

\* the max_mem_size setter: stores the value and, while nothing is spilled,
\* re-runs append_to_file(b'') so that a lowered threshold spills at once
SetMaxMemSize(f, d, np, val) ==
    LET g == [f EXCEPT !.max_mem_size = val]
    IN  IF StreamTruthy(g)
        THEN [fac |-> g, disk |-> d, next |-> np, exc |-> "none"]
        ELSE AppendToFile(g, d, np, <<>>)

\* TempFileFactory.get_file(): closes the stream but keeps the reference to it
GetFile(f) ==
    IF StreamTruthy(f)
    THEN [fac |-> [f EXCEPT !.stream = "closed"], file |-> TempFileBig(f.path, f.size)]
    ELSE [fac |-> f, file |-> TempFileSmall(f.content)]

\* TempFileFactory.clear(): a stream that is not None (open or closed) is
\* closed, dropped and its file removed from disk
Clear(f, d) ==
    IF StreamTruthy(f)
    THEN IF f.path \in DOMAIN d
         THEN [fac |-> [f EXCEPT !.stream = "None", !.content = <<>>, !.path = NoPath],
               disk |-> RemoveFile(d, f.path), exc |-> "none"]
         ELSE [fac |-> [f EXCEPT !.stream = "None"], disk |-> d,
               exc |-> "FileNotFoundError"]
    ELSE [fac |-> [f EXCEPT !.content = <<>>, !.path = NoPath], disk |-> d, exc |-> "none"]

---------------------------------------------------------------------------
(* mhttp/constants/status_codes and mhttp/helpers.py: HttpError *)

BAD_REQUEST == 400
REQUEST_TIMEOUT == 408
LENGTH_REQUIRED == 411
PAYLOAD_TOO_LARGE == 413
INTERNAL_SERVER_ERROR == 500

\* nothing raised
NoError == [exc |-> "none", code |-> 0, msg |-> ""]

\* HttpError(code, msg); msg = "" stands for an HttpError without arguments
HttpError(code, msg) == [exc |-> "HttpError", code |-> code, msg |-> msg]

\* any other exception, by the name of its class
Raised(cls) == [exc |-> cls, code |-> 0, msg |-> ""]

---------------------------------------------------------------------------
(* mhttp/socket_wrapper.py: the request reader *)

\* HttpSocketWrapper.max_content_length (30000000 in the program), scaled
MaxContentLength == 3
\* HttpSocketWrapper.max_body_ram (128000 in the program), scaled
MaxBodyRam == 1
\* HttpSocketWrapper.__bytes_read (1024 in the program), scaled
BytesRead == 2
\* most chunks of a chunked request body
MaxChunks == 2
\* most session tokens minted by one server
MaxTokens == 2
\* most requests read on one connection
MaxRequests == 2

methods == {"GET", "POST", "HEAD", "PUT", "DELETE", "TRACE", "PATCH", "OPTIONS", "CONNECT"}

Min(a, b) == IF a < b THEN a ELSE b

\* the i-th byte of a request body as the client sends it
BodyByte(i) == i % (MaxByte + 1)

BodyBytes(n) == [i \in 1..n |-> BodyByte(i)]

\* a session token as the client holds it, and the key the store files it under
Token(n) == <<"token", n>>
B64Hash(tok) == <<"sha256", tok[2]>>
NoToken == <<"token", 0>>

\* State of one get_request call while the body is read: the factory of
\* _read_body, the temp directory, the number of socket reads made so far
\* (the header section counts as read 0), the body bytes received and the
\* exception raised.
ReaderStart(d, np) ==
    [fac |-> TempFileFactoryNew(MaxBodyRam), disk |-> d, next |-> np,
     reads |-> 1, got |-> 0, err |-> NoError, trailer |-> FALSE]

\* __read_stuff: the read numbered rs.reads fails when the wire says so; a
\* TimeoutError of the socket becomes HttpError(408), an OSError passes through
ReadFails(rs, w) == w.failKind # "none" /\ w.failAt = rs.reads

ReadFailure(w) ==
    IF w.failKind = "timeout" THEN HttpError(REQUEST_TIMEOUT, "") ELSE Raised("OSError")

\* the size of the next read of __read_chunk: min(__bytes_read, length), or a
\* single byte when the socket delivers the body byte by byte (w.short)
ReceivedSize(length, w) == IF w.short THEN 1 ELSE Min(BytesRead, length)

\* the reader after factory.append_to_file(received) returned r
AfterAppend(rs, r, n) ==
    [rs EXCEPT !.fac = r.fac, !.disk = r.disk, !.next = r.next,
               !.reads = @ + 1, !.got = @ + n]

\* one round of __read_chunk: n bytes are received and appended
ReadOnce(rs, n) ==
    AfterAppend(rs,
                AppendToFile(rs.fac, rs.disk, rs.next, [i \in 1..n |-> BodyByte(rs.got + i)]),
                n)

RECURSIVE ReadChunk(_, _, _)
\* HttpSocketWrapper.__read_chunk(factory, length): reads of at most
\* __bytes_read bytes, each appended to the factory, until length bytes came
ReadChunk(rs, length, w) ==
    IF rs.err.exc # "none" \/ length <= 0 THEN rs
    ELSE IF ReadFails(rs, w) THEN [rs EXCEPT !.err = ReadFailure(w)]
    ELSE ReadChunk(ReadOnce(rs, ReceivedSize(length, w)),
                   length - ReceivedSize(length, w), w)

\* the length announced by the next chunk line: 0 ends the body
NextLength(chunks) == IF chunks = <<>> THEN 0 ELSE Head(chunks)

\* __read_body_chunked at a zero length: the trailer lines are read and split
\* when the request announced a Trailer, else one more line is read
ReadTrailer(rl, w) ==
    IF w.trailer = "absent" THEN rl
    ELSE IF w.trailer = "malformed"
    THEN [rl EXCEPT !.err = HttpError(BAD_REQUEST, "header format invalid")]
    ELSE [rl EXCEPT !.trailer = TRUE]

RECURSIVE ReadBodyChunked(_, _, _, _)

\* __read_body_chunked after __read_chunk returned rc: the loop reads the
\* next length line.  For a client that ends each chunk's data with CRLF
\* (w.crlf) that line is the empty rest of the data line, which int(.., 16)
\* rejects with ValueError.
AfterChunk(rc, chunks, left, w) ==
    IF rc.err.exc # "none" THEN rc
    ELSE IF w.crlf
    THEN IF ReadFails(rc, w) THEN [rc EXCEPT !.err = ReadFailure(w)]
         ELSE [rc EXCEPT !.reads = @ + 1, !.err = Raised("ValueError")]
    ELSE ReadBodyChunked(rc, Tail(chunks), left, w)

\* __read_body_chunked after the length line was read: left is
\* _remaining_size after the subtraction; `if not self._remaining_size`
\* raises only when it is exactly 0
AfterLength(rl, chunks, left, w) ==
    IF left = 0
    THEN [rl EXCEPT !.err = HttpError(PAYLOAD_TOO_LARGE, "Request too big")]
    ELSE IF NextLength(chunks) = 0 THEN ReadTrailer(rl, w)
    ELSE AfterChunk(ReadChunk(rl, NextLength(chunks), w), chunks, left, w)

\* HttpSocketWrapper.__read_body_chunked: chunks are the chunk lengths still
\* to come on the wire, remaining is _remaining_size
ReadBodyChunked(rs, chunks, remaining, w) ==
    IF rs.err.exc # "none" THEN rs
    ELSE IF ReadFails(rs, w) THEN [rs EXCEPT !.err = ReadFailure(w)]
    ELSE AfterLength([rs EXCEPT !.reads = @ + 1], chunks,
                     remaining - NextLength(chunks), w)

\* mutant: a Content-Length equal to max_content_length is refused as well
CheckContentHeadersStrict(w, max_content_length) ==
    LET length == IF w.clen.kind = "int" THEN w.clen.n ELSE 0
    IN  IF w.clen.kind = "invalid"
        THEN [err |-> HttpError(LENGTH_REQUIRED, "Content length value invalid"),
              has |-> FALSE, length |-> 0]
        ELSE IF length < 0
        THEN [err |-> HttpError(LENGTH_REQUIRED, "Content length value invalid"),
              has |-> FALSE, length |-> 0]
        ELSE IF length >= max_content_length
        THEN [err |-> HttpError(PAYLOAD_TOO_LARGE, "Content length too big"),
              has |-> FALSE, length |-> 0]
        ELSE IF w.transfer # "chunked" /\ length = 0
        THEN [err |-> NoError, has |-> FALSE, length |-> 0]
        ELSE IF w.transfer = "chunked"
        THEN [err |-> NoError, has |-> TRUE, length |-> 0]
        ELSE [err |-> NoError, has |-> TRUE, length |-> length]

\* check_content_headers(headers, max_content_length): what it raises, whether
\* there is a body, and the length to read (0: read chunked)
CheckContentHeaders(w, max_content_length) ==
    LET length == IF w.clen.kind = "int" THEN w.clen.n ELSE 0
    IN  IF w.clen.kind = "invalid"
        THEN [err |-> HttpError(LENGTH_REQUIRED, "Content length value invalid"),
              has |-> FALSE, length |-> 0]
        ELSE IF length < 0
        THEN [err |-> HttpError(LENGTH_REQUIRED, "Content length value invalid"),
              has |-> FALSE, length |-> 0]
        ELSE IF length > max_content_length
        THEN [err |-> HttpError(PAYLOAD_TOO_LARGE, "Content length too big"),
              has |-> FALSE, length |-> 0]
        ELSE IF w.transfer # "chunked" /\ length = 0
        THEN [err |-> NoError, has |-> FALSE, length |-> 0]
        ELSE IF w.transfer = "chunked"
        THEN [err |-> NoError, has |-> TRUE, length |-> 0]
        ELSE [err |-> NoError, has |-> TRUE, length |-> length]

\* _read_body after file = body_factory.get_file() (g) and
\* body_factory.clear() (c)
AfterClear(g, c, rs) ==
    IF c.exc # "none"
    THEN [err |-> Raised(c.exc), body |-> NoBody, disk |-> c.disk, next |-> rs.next]
    ELSE [err |-> NoError, body |-> g.file, disk |-> c.disk, next |-> rs.next]

\* _read_body, lines 137-138: get_file, then clear on the same factory
HandOver(g, rs) == AfterClear(g, Clear(g.fac, rs.disk), rs)

\* _read_body once the body bytes were read: an exception of the read leaves
\* the function before get_file and clear
FinishBody(rs) ==
    IF rs.err.exc # "none"
    THEN [err |-> rs.err, body |-> NoBody, disk |-> rs.disk, next |-> rs.next]
    ELSE HandOver(GetFile(rs.fac), rs)

\* _read_body after check_content_headers returned ch
ReadBodyChecked(ch, w, d, np) ==
    IF ch.err.exc # "none"
    THEN [err |-> ch.err, body |-> NoBody, disk |-> d, next |-> np]
    ELSE IF ~ch.has
    THEN [err |-> NoError, body |-> NoBody, disk |-> d, next |-> np]
    ELSE FinishBody(IF ch.length # 0
                    THEN ReadChunk(ReaderStart(d, np), ch.length, w)
                    ELSE ReadBodyChunked(ReaderStart(d, np), w.chunks, MaxContentLength, w))

\* HttpSocketWrapper._read_body(headers): the Body, what was raised, and the
\* temp directory afterwards
ReadBody(w, d, np) == ReadBodyChecked(CheckContentHeaders(w, MaxContentLength), w, d, np)

\* HttpRequest(protocol, route, method, args, headers, cookies, body), by the
\* fields the connection loop reads
HttpRequest(w, body) ==
    [method |-> w.method, connection |-> w.connection, cookie |-> w.cookie, body |-> body]

NoRequest ==
    [method |-> "", connection |-> "absent", cookie |-> NoToken, body |-> NoBody]

\* get_request, lines 185-186: the request is built from the body read, unless
\* reading it raised
RequestOf(w, b) ==
    IF b.err.exc # "none"
    THEN [err |-> b.err, req |-> NoRequest, disk |-> b.disk, next |-> b.next]
    ELSE [err |-> NoError, req |-> HttpRequest(w, b.body), disk |-> b.disk, next |-> b.next]

\* ServerSocketWrapper.get_request() on the wire request w: what it raises or
\* the request it returns, and the temp directory afterwards.  The header
\* section is read first (a timeout, a transport error or a line longer than
\* the header budget ends it), then the start line, the query, the method and
\* the header lines are checked in this order, then the body is read.
GetRequestResult(w, d, np) ==
    IF w.headerFail = "timeout"
    THEN [err |-> HttpError(REQUEST_TIMEOUT, ""), req |-> NoRequest, disk |-> d, next |-> np]
    ELSE IF w.headerFail = "oserror"
    THEN [err |-> Raised("OSError"), req |-> NoRequest, disk |-> d, next |-> np]
    ELSE IF w.headerFail = "toolong"
    THEN [err |-> Raised("ValueError"), req |-> NoRequest, disk |-> d, next |-> np]
    ELSE IF w.malformed = "first_line"
    THEN [err |-> HttpError(BAD_REQUEST, "First line invalid"),
          req |-> NoRequest, disk |-> d, next |-> np]
    ELSE IF w.malformed = "query"
    THEN [err |-> HttpError(BAD_REQUEST, "header format invalid"),
          req |-> NoRequest, disk |-> d, next |-> np]
    ELSE IF w.method \notin methods
    THEN [err |-> Raised("ValueError"), req |-> NoRequest, disk |-> d, next |-> np]
    ELSE IF w.malformed = "header"
    THEN [err |-> HttpError(BAD_REQUEST, "header format invalid"),
          req |-> NoRequest, disk |-> d, next |-> np]
    ELSE RequestOf(w, ReadBody(w, d, np))

---------------------------------------------------------------------------
(* The requests a client can put on the wire *)

\* latest socket read of the body phase that the wire lets fail
MaxFailAt == 3

Connections == {"absent", "keep-alive", "Keep-Alive", "close"}

Wire0 ==
    [malformed |-> "none", headerFail |-> "none", method |-> "GET",
     connection |-> "absent", cookie |-> NoToken,
     clen |-> [kind |-> "absent", n |-> 0], transfer |-> "absent",
     chunks |-> <<>>, crlf |-> TRUE, trailer |-> "absent", short |-> FALSE,
     failKind |-> "none", failAt |-> 0]

\* the socket read that fails, if any, and how
NoFailure == [kind |-> "none", at |-> 0]

Failures ==
    {NoFailure} \cup
    {[kind |-> k, at |-> a] : k \in {"timeout", "oserror"}, a \in 1..MaxFailAt}

\* the header section cannot be read
WireHeaderFailures ==
    {[Wire0 EXCEPT !.headerFail = f] : f \in {"timeout", "oserror", "toolong"}}

\* malformed start line, query or header line
WireMalformed ==
    {[Wire0 EXCEPT !.malformed = m, !.method = me] :
        m \in {"first_line", "query", "header"}, me \in {"GET", "BREW"}}

\* requests without a body
WirePlain ==
    {[Wire0 EXCEPT !.method = me, !.connection = c, !.cookie = k] :
        me \in {"GET", "POST", "BREW"}, c \in Connections,
        k \in {NoToken} \cup {Token(n) : n \in 1..MaxTokens}}

ContentLengths ==
    {[kind |-> "invalid", n |-> 0]} \cup
    {[kind |-> "int", n |-> n] : n \in (-1)..(MaxContentLength + 1)}

\* requests with a Content-Length header: every header combination on a
\* socket that delivers, and every failure of a body read
WireSized ==
    {[Wire0 EXCEPT !.method = "POST", !.connection = c, !.clen = cl, !.transfer = t,
                   !.short = s] :
        c \in {"absent", "close"}, cl \in ContentLengths, t \in {"absent", "gzip"},
        s \in BOOLEAN} \cup
    {[Wire0 EXCEPT !.method = "POST", !.clen = cl, !.short = s,
                   !.failKind = f.kind, !.failAt = f.at] :
        cl \in ContentLengths, s \in BOOLEAN, f \in Failures \ {NoFailure}}

\* requests with Transfer-Encoding: chunked: every framing on a socket that
\* delivers, every failure of a read, and a Content-Length sent along
WireChunked ==
    {[Wire0 EXCEPT !.method = "POST", !.connection = c, !.transfer = "chunked",
                   !.chunks = ch, !.crlf = cr, !.trailer = t] :
        c \in {"absent", "close"}, ch \in SeqsUpTo(1..BytesRead, MaxChunks),
        cr \in BOOLEAN, t \in {"absent", "ok", "malformed"}} \cup
    {[Wire0 EXCEPT !.method = "POST", !.transfer = "chunked", !.chunks = ch, !.crlf = cr,
                   !.failKind = f.kind, !.failAt = f.at] :
        ch \in SeqsUpTo(1..BytesRead, MaxChunks), cr \in BOOLEAN,
        f \in Failures \ {NoFailure}} \cup
    {[Wire0 EXCEPT !.method = "POST", !.clen = [kind |-> "int", n |-> MaxBodyRam + 1],
                   !.transfer = "chunked", !.chunks = ch, !.crlf = cr] :
        ch \in SeqsUpTo(1..BytesRead, MaxChunks), cr \in BOOLEAN}

\* what the header section of a wire request looks like
WireHead(w) == [method |-> w.method, malformed |-> w.malformed, headerFail |-> w.headerFail]

WireRequests == WireHeaderFailures \cup WireMalformed \cup WirePlain \cup WireSized \cup WireChunked

---------------------------------------------------------------------------
(* mhttp/messages.py: HttpRequest and HttpResponse *)

\* str.lower() on the values a Connection header takes here
Lower(s) ==
    CASE s = "Keep-Alive" -> "keep-alive"
      [] s = "Close"      -> "close"
      [] OTHER            -> s

\* HttpRequest.keep_connection and HttpResponse.keep_connection (the getter):
\* the Connection header, lowercased, is keep-alive; an absent header counts
\* as keep-alive
KeepConnection(connection) ==
    LET option == IF connection = "absent" THEN "keep-alive" ELSE Lower(connection)
    IN  option = "keep-alive"

\* HttpResponse(body, code) for a text body: no body stream for an empty text
HttpResponse(text, code) ==
    [code |-> code, body |-> IF text = "" THEN "none" ELSE "sized", text |-> text,
     connection |-> "absent", closed |-> FALSE, cookie |-> NoToken]

NoResponse == HttpResponse("", 0)

\* TempFileSmall.delete / TempFileBig.delete: what is left of the Body, of the
\* temp directory, and what was raised
TempFileDelete(b, d) ==
    IF b.kind = "small"
    THEN [body |-> [b EXCEPT !.content = <<>>, !.hasContent = FALSE], disk |-> d,
          exc |-> "none"]
    ELSE IF b.path = NoPath
    THEN [body |-> b, disk |-> d, exc |-> "TypeError"]
    ELSE [body |-> [b EXCEPT !.path = NoPath],
          disk |-> IF b.path \in DOMAIN d THEN RemoveFile(d, b.path) ELSE d,
          exc |-> "none"]

\* bool(body): a TempFile is true when its length is not 0; len() of a
\* deleted in-memory file raises TypeError
BodyTruthy(b) == b.kind # "none" /\ BodySize(b) # 0

\* mutant: delete() forgets the body
HttpRequestDeleteNothing(req, d) == [req |-> req, disk |-> d, exc |-> "none"]

\* HttpRequest.delete()
HttpRequestDelete(req, d) ==
    IF req.body.kind = "small" /\ ~req.body.hasContent
    THEN [req |-> req, disk |-> d, exc |-> "TypeError"]
    ELSE IF BodyTruthy(req.body)
    THEN LET r == TempFileDelete(req.body, d)
         IN  [req |-> [req EXCEPT !.body = r.body], disk |-> r.disk, exc |-> r.exc]
    ELSE [req |-> req, disk |-> d, exc |-> "none"]

\* HttpResponse.delete(): self.body.close(), an AttributeError without a body
HttpResponseDelete(resp) ==
    IF resp.body = "none"
    THEN [resp |-> resp, exc |-> "AttributeError"]
    ELSE [resp |-> [resp EXCEPT !.closed = TRUE], exc |-> "none"]

---------------------------------------------------------------------------
(* mhttp/server.py: HttpServer *)

\* mutant: the error's message is dropped from the response
ErrorRespNoMessage(code, error) == HttpResponse("", code)

\* mutant: every error response carries status 500
ErrorRespAlways500(code, error) == HttpResponse(error.msg, INTERNAL_SERVER_ERROR)

\* HttpServer.error_resp(code, protocol, error): the body is str(error.args[0])
\* when the error carries arguments
ErrorResp(code, error) == HttpResponse(error.msg, code)

\* what the user's handler can do with a request
HandlerOutcomes ==
    {[kind |-> "return", body |-> b, connection |-> c, session |-> s, code |-> 200, msg |-> ""] :
        b \in {"none", "sized", "chunked"}, c \in {"absent", "Keep-Alive", "Close"},
        s \in {"empty", "nonempty"}} \cup
    {[kind |-> "HttpError", body |-> "none", connection |-> "absent", session |-> "empty",
      code |-> 404, msg |-> m] : m \in {"", "no such route"}} \cup
    {[kind |-> "Exception", body |-> "none", connection |-> "absent", session |-> "empty",
      code |-> 0, msg |-> ""]}

\* the HttpResponse a returning handler built
HandlerResponse(o) ==
    [code |-> o.code, body |-> o.body, text |-> IF o.body = "none" THEN "" ELSE "hi",
     connection |-> o.connection, closed |-> FALSE, cookie |-> NoToken]

\* SessionManager.__contains__(session_key): looks the token itself up among
\* the stored hashes
SessionContains(store, session_key) == session_key # NoToken /\ session_key \in store

\* HttpServer.handle_request after the handler returned: an empty session is
\* deleted from the store; otherwise a token is minted and set as cookie when
\* the request had none or the store does not contain it
HandleSession(o, req, resp, store, tok) ==
    IF o.session = "empty"
    THEN [resp |-> resp, tok |-> tok,
          store |-> IF req.cookie = NoToken THEN store ELSE store \ {B64Hash(req.cookie)}]
    ELSE IF req.cookie = NoToken \/ ~SessionContains(store, req.cookie)
    THEN [resp |-> [resp EXCEPT !.cookie = Token(tok)], tok |-> tok + 1,
          store |-> store \cup {B64Hash(Token(tok))}]
    ELSE [resp |-> resp, tok |-> tok, store |-> store]

\* one send_response call as the connection's peer sees it
Emission(resp, ok) == [code |-> resp.code, text |-> resp.text, ok |-> ok]

\* mutant: the socket is closed only when the block is left without exception
BufferedSocketExitOnSuccess(closed, how) == closed \/ how \in {"none", "break"}

\* BufferedSocket.__exit__: socket.__exit__ closes the socket however the
\* with block is left
BufferedSocketExit(closed, how) == TRUE

---------------------------------------------------------------------------
(* mhttp/files.py: the life of a TempFile handle *)

\* shutil.move(src, dest) / shutil.copy(src, dest) between existing paths
MoveFile(d, src, dest) == RemoveFile(WriteFile(d, dest, d[src]), src)

CopyFile(d, src, dest) == WriteFile(d, dest, d[src])

\* TempFileSmall.copy_to / TempFileBig.copy_to: open(dest, "wb") creates the
\* destination before write(None) of a deleted in-memory file raises
TempFileCopyTo(b, d, dest) ==
    IF b.kind = "small"
    THEN IF b.hasContent
         THEN [body |-> b, disk |-> WriteFile(d, dest, b.content), exc |-> "none"]
         ELSE [body |-> b, disk |-> WriteFile(d, dest, <<>>), exc |-> "TypeError"]
    ELSE IF b.path = NoPath
    THEN [body |-> b, disk |-> d, exc |-> "TypeError"]
    ELSE IF b.path \notin DOMAIN d
    THEN [body |-> b, disk |-> d, exc |-> "FileNotFoundError"]
    ELSE [body |-> b, disk |-> CopyFile(d, b.path, dest), exc |-> "none"]

\* the delete() that ends move_to, unless the copy or the move raised
DeleteAfter(r) == IF r.exc # "none" THEN r ELSE TempFileDelete(r.body, r.disk)

\* TempFileSmall.move_to: copy_to then delete; TempFileBig.move_to:
\* shutil.move(self.path, dest_path) then delete
TempFileMoveTo(b, d, dest) ==
    IF b.kind = "small"
    THEN DeleteAfter(TempFileCopyTo(b, d, dest))
    ELSE IF b.path = NoPath
    THEN [body |-> b, disk |-> d, exc |-> "TypeError"]
    ELSE IF b.path \notin DOMAIN d
    THEN [body |-> b, disk |-> d, exc |-> "FileNotFoundError"]
    ELSE DeleteAfter([body |-> b, disk |-> MoveFile(d, b.path, dest), exc |-> "none"])

\* where a handler moves or copies a body to
Dests == {MaxFiles + 1, MaxFiles + 2}

\* the path get_temp_file gave the file of the handle that is driven alone
TempPath == 1

BodyIdle ==
    /\ tf = NoBody
    /\ tfdisk = EmptyDisk
    /\ tfop = [op |-> "init", exc |-> "none", ignored |-> "none"]
    /\ unlinks = 0

---------------------------------------------------------------------------
(* utils/mcollections/buffer.py: FifoBuffer.  Indices are Python's: the     *)
(* byte at index i of the array is array[i + 1] here.                      *)

\* b'\n', b'\r' and a letter, as the byte values Python sees
LF == 10
CR == 13
LetterA == 97

Max(a, b) == IF a > b THEN a ELSE b

\* array[a:b] for 0 <= a: both ends are clamped to the length of the array
Slice(array, a, b) == SubSeq(array, a + 1, Min(b, Len(array)))

\* array[a:b] = data for 0 <= a <= b: the slice is replaced, and an end
\* beyond the array makes the bytearray grow
SliceAssign(array, a, b, data) ==
    Slice(array, 0, Min(a, Len(array))) \o data
        \o Slice(array, Max(Min(a, Len(array)), Min(b, Len(array))), Len(array))

\* bytearray.find(byte, start, end): the first index in [start, end) that
\* holds byte, or -1
Find(array, byte, start, end) ==
    LET hits == {i \in start..(Min(end, Len(array)) - 1) : array[i + 1] = byte}
    IN  IF hits = {} THEN -1 ELSE CHOOSE i \in hits : \A j \in hits : i <= j

\* FifoBuffer(init_size): bytearray(init_size) is init_size zero bytes
FifoBufferNew(init_size) ==
    [array |-> [i \in 1..init_size |-> 0], top |-> 0, bottom |-> 0]

\* FifoBuffer.__len__
BufLen(b) == b.top - b.bottom

\* FifoBuffer.__resize(size): new_arr is filled from itself and never
\* assigned to self.__array; only the cursors change
Resize(b) == [b EXCEPT !.bottom = 0, !.top = BufLen(b)]

\* FifoBuffer.__reposition()
Reposition(b) ==
    [array |-> SliceAssign(b.array, 0, BufLen(b), Slice(b.array, b.bottom, b.top)),
     top |-> BufLen(b), bottom |-> 0]

\* push, lines 29-32: the data is written at top
PushAtTop(b, data) ==
    [b EXCEPT !.array = SliceAssign(b.array, b.top, b.top + Len(data), data),
              !.top = b.top + Len(data)]

\* push, lines 27-28
PushResized(b, data) ==
    PushAtTop(IF Len(data) + b.top > Len(b.array) THEN Reposition(b) ELSE b, data)

\* FifoBuffer.push(data)
Push(b, data) ==
    PushResized(IF Len(data) + BufLen(b) > Len(b.array) THEN Resize(b) ELSE b, data)

\* FifoBuffer.peek(length)
Peek(b, length) == Slice(b.array, b.bottom, Min(b.bottom + length, b.top))

\* pop, lines 48-51, once peek returned res
PopResult(b, res) ==
    [buf |-> IF b.bottom + Len(res) = b.top
             THEN [b EXCEPT !.bottom = 0, !.top = 0]
             ELSE [b EXCEPT !.bottom = b.bottom + Len(res)],
     res |-> res]

\* FifoBuffer.pop(length)
Pop(b, length) == PopResult(b, Peek(b, length))

\* pop_until, lines 64-67, once find returned loc - 1; find never raises, so
\* the except branch is dead and a needle that is not there gives loc = 0
PopUntilAt(b, loc) ==
    [buf |-> [b EXCEPT !.bottom = loc], res |-> SubSeq(b.array, b.bottom + 1, Min(loc, Len(b.array)))]

\* FifoBuffer.pop_until(string) for a needle of one byte
PopUntil(b, byte) == PopUntilAt(b, Find(b.array, byte, b.bottom, b.top) + 1)

\* FifoBuffer.pop_line()
PopLine(b) == PopUntil(b, LF)

\* FifoBuffer.__bool__
BufTruthy(b) == BufLen(b) # 0

---------------------------------------------------------------------------
(* utils/buffered_socket.py: BufferedSocket over a connection.  stream is   *)
(* what the peer has written and nobody has received yet, seg the most     *)
(* bytes one recv delivers (how the network cut the data), unit the 1024   *)
(* of __max_read.                                                          *)

\* BufferedSocket(sock): buffer = FifoBuffer(buffer_len)
BufferedSocketNew(stream, seg, unit, buffer_len) ==
    [buffer |-> FifoBufferNew(buffer_len), stream |-> stream, seg |-> seg, unit |-> unit]

\* socket.recv(n) while bytes are waiting: the next bytes, at most n of them
Recv(bs, n) ==
    [sock |-> [bs EXCEPT !.stream = SubSeq(bs.stream, Min(Min(n, bs.seg), Len(bs.stream)) + 1,
                                           Len(bs.stream))],
     data |-> SubSeq(bs.stream, 1, Min(Min(n, bs.seg), Len(bs.stream)))]

\* BufferedSocket.__max_read
MaxReadOf(bs) == Max(BufLen(bs.buffer), bs.unit)

\* BufferedSocket.read(size); with nothing buffered and nothing on the way
\* recv gives nothing until the timeout stops the caller
SocketRead(bs, size) ==
    IF BufTruthy(bs.buffer)
    THEN [sock |-> [bs EXCEPT !.buffer = Pop(bs.buffer, size).buf],
          data |-> Pop(bs.buffer, size).res, exc |-> "none"]
    ELSE IF bs.stream = <<>>
    THEN [sock |-> bs, data |-> <<>>, exc |-> "TimeoutError"]
    ELSE [sock |-> Recv(bs, size).sock, data |-> Recv(bs, size).data, exc |-> "none"]

\* read_line, lines 37-42: the newline is at index of received; line[-1] of
\* an empty line is an IndexError, raised before the rest is pushed back
LineFound(bs, line, received, index) ==
    IF line \o Slice(received, 0, index) = <<>>
    THEN [sock |-> bs, line |-> <<>>, exc |-> "IndexError"]
    ELSE [sock |-> [bs EXCEPT !.buffer = Push(bs.buffer, Slice(received, index + 1, Len(received)))],
          line |-> IF (line \o Slice(received, 0, index))[Len(line) + index] = CR
                   THEN SubSeq(line \o Slice(received, 0, index), 1, Len(line) + index - 1)
                   ELSE line \o Slice(received, 0, index),
          exc |-> "none"]

\* read_line, lines 32-47: the loop.  What was received without a newline
\* goes into the buffer, never into line
RECURSIVE ReadLineLoop(_, _, _)
\* read_line, lines 33-36, once recv returned rc
ReadLineReceived(bs, line, remaining, rc) ==
    IF Find(rc.data, LF, 0, Len(rc.data)) # -1
    THEN LineFound(rc.sock, line, rc.data, Find(rc.data, LF, 0, Len(rc.data)))
    ELSE IF remaining - Len(rc.data) <= 0
    THEN [sock |-> [rc.sock EXCEPT !.buffer = Push(rc.sock.buffer, rc.data)],
          line |-> <<>>, exc |-> "ValueError"]
    ELSE ReadLineLoop([rc.sock EXCEPT !.buffer = Push(rc.sock.buffer, rc.data)],
                      line, remaining - Len(rc.data))

ReadLineLoop(bs, line, remaining) ==
    IF bs.stream = <<>>
    THEN [sock |-> bs, line |-> <<>>, exc |-> "TimeoutError"]
    ELSE ReadLineReceived(bs, line, remaining, Recv(bs, Min(MaxReadOf(bs), remaining)))

\* read_line, lines 26-31, once pop_line returned r
ReadLinePopped(bs, limit, r) ==
    IF r.res # <<>> /\ r.res[Len(r.res)] = LF
    THEN [sock |-> [bs EXCEPT !.buffer = r.buf],
          line |-> SubSeq(r.res, 1, Len(r.res) - 2), exc |-> "none"]
    ELSE ReadLineLoop([bs EXCEPT !.buffer = r.buf], r.res, limit - Len(r.res))

\* BufferedSocket.read_line(limit)
ReadLine(bs, limit) == ReadLinePopped(bs, limit, PopLine(bs.buffer))

\* HttpSocketWrapper._get_headers_strings: lines are read until an empty one
RECURSIVE GetHeadersLoop(_, _, _)
GetHeadersNext(r, lines, limit) ==
    IF r.exc # "none" THEN [sock |-> r.sock, lines |-> lines, exc |-> r.exc]
    ELSE IF r.line = <<>> THEN [sock |-> r.sock, lines |-> lines, exc |-> "none"]
    ELSE GetHeadersLoop(r.sock, Append(lines, r.line), limit)

GetHeadersLoop(bs, lines, limit) == GetHeadersNext(ReadLine(bs, limit), lines, limit)

GetHeadersStrings(bs, limit) == GetHeadersLoop(bs, <<>>, limit)

---------------------------------------------------------------------------
(* mhttp/socket_wrapper.py: chunked bodies byte by byte, as _send_chunked   *)
(* writes them and __read_body_chunked reads them from a BufferedSocket.   *)

\* HttpSocketWrapper.max_content_length, __bytes_read and the 1024 and
\* buffer_len of BufferedSocket, as the source sets them
max_content_length == 30000000
bytes_read == 1024
max_read_unit == 1024
buffer_len == 2048

\* the character of one hexadecimal digit, as hex() writes it
HexDigit(d) == IF d < 10 THEN 48 + d ELSE 87 + d

\* hex(n)[2:].encode()
RECURSIVE HexOf(_)
HexOf(n) == IF n < 16 THEN <<HexDigit(n)>> ELSE HexOf(n \div 16) \o <<HexDigit(n % 16)>>

\* HttpSocketWrapper._send_chunked(stream, chunk_size): everything it sends
RECURSIVE SendChunked(_, _)
SendChunked(bytes, chunk_size) ==
    HexOf(Min(chunk_size, Len(bytes))) \o <<CR, LF>>
        \o SubSeq(bytes, 1, Min(chunk_size, Len(bytes))) \o <<CR, LF>>
        \o IF Min(chunk_size, Len(bytes)) = 0 THEN <<>>
           ELSE SendChunked(SubSeq(bytes, Min(chunk_size, Len(bytes)) + 1, Len(bytes)), chunk_size)

\* the value of one hexadecimal digit, -1 for any other byte
HexValue(byte) ==
    IF byte \in 48..57 THEN byte - 48
    ELSE IF byte \in 97..102 THEN byte - 87
    ELSE IF byte \in 65..70 THEN byte - 55
    ELSE -1

\* the bytes int() skips at both ends
IsSpace(byte) == byte \in {9, 10, 11, 12, 13, 32}

RECURSIVE Strip(_)
Strip(line) ==
    IF line = <<>> THEN line
    ELSE IF IsSpace(Head(line)) THEN Strip(Tail(line))
    ELSE IF IsSpace(line[Len(line)]) THEN Strip(SubSeq(line, 1, Len(line) - 1))
    ELSE line

RECURSIVE HexNumber(_, _)
HexNumber(digits, value) ==
    IF digits = <<>> THEN value
    ELSE IF HexValue(Head(digits)) = -1 THEN -1
    ELSE HexNumber(Tail(digits), 16 * value + HexValue(Head(digits)))

\* int(line, 16) for lines of digits, letters and white space: the number,
\* or -1 where int raises ValueError
ParseHex(line) == IF Strip(line) = <<>> THEN -1 ELSE HexNumber(Strip(line), 0)

\* len(str(n))
RECURSIVE DecLen(_)
DecLen(n) == IF n < 0 THEN 1 + DecLen(0 - n) ELSE IF n < 10 THEN 1 ELSE 1 + DecLen(n \div 10)

\* the error a caller of __read_stuff sees for what the socket raised
ReadStuffError(exc) == IF exc = "TimeoutError" THEN "HttpError408" ELSE exc

\* HttpSocketWrapper.__read_chunk: reads until length bytes were appended
RECURSIVE ReadChunkWire(_, _, _)
ReadChunkAppended(r, acc, length) ==
    IF r.exc # "none" THEN [sock |-> r.sock, body |-> acc, exc |-> ReadStuffError(r.exc)]
    ELSE ReadChunkWire(r.sock, acc \o r.data, length - Len(r.data))

ReadChunkWire(bs, acc, length) ==
    IF length > 0 THEN ReadChunkAppended(SocketRead(bs, Min(bytes_read, length)), acc, length)
    ELSE [sock |-> bs, body |-> acc, exc |-> "none"]

\* __read_body_chunked, lines 110-114: the line after the last chunk; the
\* ValueError of a line that is too long is swallowed
LastLineRead(r, acc) ==
    [sock |-> r.sock, body |-> acc,
     exc |-> IF r.exc = "ValueError" THEN "none" ELSE ReadStuffError(r.exc)]

RECURSIVE ReadBodyChunkedWire(_, _, _)
\* __read_body_chunked, line 115 and back to the head of the loop
AfterChunkWire(rc, remaining) ==
    IF rc.exc # "none" THEN rc ELSE ReadBodyChunkedWire(rc.sock, rc.body, remaining)

\* __read_body_chunked, lines 104-115, once the length is known
LengthParsed(bs, acc, remaining, length) ==
    IF length = -1 THEN [sock |-> bs, body |-> acc, exc |-> "ValueError"]
    ELSE IF remaining - length = 0 THEN [sock |-> bs, body |-> acc, exc |-> "HttpError413"]
    ELSE IF length = 0 THEN LastLineRead(ReadLine(bs, 2), acc)
    ELSE AfterChunkWire(ReadChunkWire(bs, acc, length), remaining - length)

\* __read_body_chunked, line 103, once read_line returned r
LengthLineRead(r, acc, remaining) ==
    IF r.exc # "none" THEN [sock |-> r.sock, body |-> acc, exc |-> ReadStuffError(r.exc)]
    ELSE LengthParsed(r.sock, acc, remaining, ParseHex(r.line))

\* HttpSocketWrapper.__read_body_chunked without trailer keys; acc is what
\* was appended to the body so far, remaining is _remaining_size
ReadBodyChunkedWire(bs, acc, remaining) ==
    LengthLineRead(ReadLine(bs, DecLen(remaining)), acc, remaining)

---------------------------------------------------------------------------
(* mhttp/messages.py: HttpResponse with its headers.  headers is the       *)
(* CaseInsensitiveDict: order holds its keys (lower case) in insertion     *)
(* order, cl is the value of content-length, te the value of               *)
(* transfer-encoding as its comma separated tokens, ctype the value of     *)
(* content-type; a value only means something while its key is in order.   *)
(* chunk_size 0 stands for a response object without that attribute.       *)

\* dict: d[key] = value keeps the place of a key that is there
SetKey(order, key) ==
    IF \E i \in 1..Len(order) : order[i] = key THEN order ELSE Append(order, key)

\* dict: del d[key]
DelKey(order, key) == SelectSeq(order, LAMBDA k : k # key)

\* key in headers
HasKey(r, key) == \E i \in 1..Len(r.order) : r.order[i] = key

\* HttpResponse.first_headers and last_headers, lower case; last_headers
\* names Transfer-Encoding twice
first_headers == <<"server">>
last_headers ==
    <<"trailer", "content-disposition", "content-type", "transfer-encoding",
      "content-language", "content-location", "transfer-encoding", "content-length">>

\* HttpResponse() without a body: __set_content_length(0)
ResponseNew(protocol) ==
    [protocol |-> protocol, code |-> 200, order |-> <<"content-length">>, cl |-> 0,
     te |-> <<>>, ctype |-> "", cookies |-> <<>>,
     first |-> first_headers, last |-> last_headers,
     body |-> [set |-> FALSE, bytes |-> <<>>], chunk_size |-> 0]

\* HttpResponse.__set_content_length(value)
SetContentLength(r, value) ==
    [r EXCEPT !.order = SetKey(@, "content-length"), !.cl = Max(value, 0)]

\* str.lower() of one token
LowerToken(tok) ==
    CASE tok = "GZIP" -> "gzip"
      [] tok = "Chunked" -> "chunked"
      [] OTHER -> tok

\* 'chunked' in te, for te the tokens joined by commas
ContainsChunked(te) == \E i \in 1..Len(te) : te[i] \in {"chunked", " chunked"}

\* te.get(...) is None or ''
NoEncoding(r) == ~HasKey(r, "transfer-encoding") \/ r.te = <<>>

\* list.remove(item): the first item equal to it is taken out
RECURSIVE RemoveFirst(_, _)
RemoveFirst(list, item) ==
    IF list = <<>> THEN <<>>
    ELSE IF Head(list) = item THEN Tail(list)
    ELSE <<Head(list)>> \o RemoveFirst(Tail(list), item)

LowerAll(te) == [i \in 1..Len(te) |-> LowerToken(te[i])]

\* HttpResponse._set_chunked
SetChunked(r) ==
    IF NoEncoding(r)
    THEN [r EXCEPT !.order = SetKey(DelKey(@, "content-length"), "transfer-encoding"),
                   !.cl = 0, !.te = <<"chunked">>]
    ELSE IF ~ContainsChunked(r.te)
    THEN [r EXCEPT !.order = DelKey(@, "content-length"), !.cl = 0,
                   !.te = Append(@, "chunked")]
    ELSE [r EXCEPT !.order = DelKey(@, "content-length"), !.cl = 0]

\* an _un_chunked that leaves the header as it is
UnChunkedKeeps(r) == [resp |-> r, exc |-> "none"]

\* HttpResponse._un_chunked; list.remove raises ValueError when no token is
\* exactly 'chunked'
UnChunked(r) ==
    IF NoEncoding(r) \/ ~ContainsChunked(r.te) THEN [resp |-> r, exc |-> "none"]
    ELSE IF ~\E i \in 1..Len(r.te) : LowerAll(r.te)[i] = "chunked"
    THEN [resp |-> r, exc |-> "ValueError"]
    ELSE IF RemoveFirst(LowerAll(r.te), "chunked") = <<>>
    THEN [resp |-> [r EXCEPT !.order = DelKey(@, "transfer-encoding"), !.te = <<>>],
          exc |-> "none"]
    ELSE [resp |-> [r EXCEPT !.te = RemoveFirst(LowerAll(r.te), "chunked")], exc |-> "none"]

\* HttpResponse.set_body_stream(body, size); given tells a size from None
SetBodyStream(r, bytes, given, size) ==
    IF given /\ size # 0
    THEN UnChunked(SetContentLength([r EXCEPT !.body = [set |-> TRUE, bytes |-> bytes]], size))
    ELSE [resp |-> SetChunked([r EXCEPT !.body = [set |-> TRUE, bytes |-> bytes]]),
          exc |-> "none"]

\* set_body, lines 283-297: the content type is set once set_body_stream
\* returned
ContentTypeSet(res, ctype) ==
    IF res.exc # "none" THEN res
    ELSE [resp |-> [res.resp EXCEPT !.order = SetKey(@, "content-type"), !.ctype = ctype],
          exc |-> "none"]

TEXT_PLAIN == "text/plain"
OCTET_STREAM == "application/octet-stream"

\* HttpResponse.set_body(body) for a str or bytes body of these bytes
SetBody(r, bytes, ctype) ==
    IF bytes = <<>> THEN [resp |-> r, exc |-> "none"]
    ELSE ContentTypeSet(SetBodyStream(r, bytes, TRUE, Len(bytes)), ctype)

\* HttpResponse.set_body(stream, length) for a binary stream
SetBodyOfStream(r, bytes, given, size) ==
    ContentTypeSet(SetBodyStream(r, bytes, given, size), OCTET_STREAM)

\* HttpResponse.is_chunked
IsChunked(r) == HasKey(r, "transfer-encoding")

\* the lines get_header_string makes for the keys of a tuple that are in
\* headers, in the order of the tuple
RECURSIVE LinesOf(_, _)
LinesOf(r, keys) ==
    IF keys = <<>> THEN <<>>
    ELSE (IF HasKey(r, Head(keys)) THEN <<[kind |-> "header", key |-> Head(keys)]>> ELSE <<>>)
             \o LinesOf(r, Tail(keys))

\* get_header_string, lines 318-321: the headers of neither tuple
MiddleKeys(r) ==
    SelectSeq(r.order, LAMBDA k : ~\E i \in 1..Len(r.first \o r.last) : (r.first \o r.last)[i] = k)

CookieLines(r) == [i \in 1..Len(r.cookies) |-> [kind |-> "cookie", key |-> r.cookies[i]]]

StatusLine == [kind |-> "status", key |-> ""]
CRLF == [kind |-> "crlf", key |-> ""]

\* get_header_string with the cookie lines after the last headers
HeaderLinesCookiesLast(r) ==
    <<StatusLine>> \o LinesOf(r, r.first)
        \o [i \in 1..Len(MiddleKeys(r)) |-> [kind |-> "header", key |-> MiddleKeys(r)[i]]]
        \o LinesOf(r, r.last) \o CookieLines(r) \o <<CRLF>>

\* get_header_string, lines 314-327: the list lines
HeaderLines(r) ==
    <<StatusLine>> \o LinesOf(r, r.first)
        \o [i \in 1..Len(MiddleKeys(r)) |-> [kind |-> "header", key |-> MiddleKeys(r)[i]]]
        \o CookieLines(r) \o LinesOf(r, r.last) \o <<CRLF>>

\* b'\r\n'.join(lines)
RECURSIVE Join(_)
Join(lines) ==
    IF Len(lines) <= 1 THEN lines
    ELSE <<Head(lines), CRLF>> \o Join(Tail(lines))

\* HttpResponse.get_header_string
GetHeaderString(r) ==
    IF r.protocol = "" THEN [wire |-> <<>>, exc |-> "ValueError"]
    ELSE [wire |-> Join(HeaderLines(r)), exc |-> "none"]

\* HttpSocketWrapper._send(stream): the stream goes out as it is
SendPlain(bytes) == bytes

\* send_response, lines 192-197, once the header block is out
BodySent(r, head) ==
    IF ~r.body.set THEN [head |-> head, framing |-> "none", body |-> <<>>, exc |-> "none"]
    ELSE IF IsChunked(r)
    THEN IF r.chunk_size = 0
         THEN [head |-> head, framing |-> "none", body |-> <<>>, exc |-> "AttributeError"]
         ELSE [head |-> head, framing |-> "chunked",
               body |-> SendChunked(r.body.bytes, r.chunk_size), exc |-> "none"]
    ELSE [head |-> head, framing |-> "sized", body |-> SendPlain(r.body.bytes), exc |-> "none"]

\* ServerSocketWrapper.send_response(response)
SendResponseWire(r) ==
    IF GetHeaderString(r).exc # "none"
    THEN [head |-> <<>>, framing |-> "none", body |-> <<>>, exc |-> GetHeaderString(r).exc]
    ELSE BodySent(r, GetHeaderString(r).wire)

---------------------------------------------------------------------------
(* mhttp/socket_wrapper.py: what get_request does with the header lines.    *)
(* A dict is the sequence of its <<key, value>> pairs in insertion order.   *)

\* dict.__contains__ and dict.get: the key is matched as it is written
DictHas(d, k) == \E i \in 1..Len(d) : d[i][1] = k

DictGet(d, k) == d[CHOOSE i \in 1..Len(d) : d[i][1] = k][2]

\* dict.__setitem__: a known key keeps its place
DictSet(d, k, v) ==
    IF DictHas(d, k) THEN [i \in 1..Len(d) |-> IF d[i][1] = k THEN <<k, v>> ELSE d[i]]
    ELSE Append(d, <<k, v>>)

\* dict.pop(k) for a key of d
DictPop(d, k) == SelectSeq(d, LAMBDA kv : kv[1] # k)

\* the header titles that are put on the wire, in two spellings each
HeaderTitles ==
    {"Content-Length", "content-length", "Transfer-Encoding", "transfer-encoding",
     "Cookie", "cookie", "Trailer", "TRAILER"}

\* to_lower(key): str.lower() on those titles
ToLower(key) ==
    CASE key \in {"Content-Length", "content-length"} -> "content-length"
      [] key \in {"Transfer-Encoding", "transfer-encoding"} -> "transfer-encoding"
      [] key \in {"Cookie", "cookie"} -> "cookie"
      [] key \in {"Trailer", "TRAILER", "trailer"} -> "trailer"
      [] OTHER -> key

\* CaseInsensitiveDict.__init__, lines 17-19: every key of the snapshot is
\* popped and stored again under its lower-case form
RECURSIVE LowerKeys(_, _)
LowerKeys(d, keys) ==
    IF keys = <<>> THEN d
    ELSE LowerKeys(DictSet(DictPop(d, Head(keys)), ToLower(Head(keys)), DictGet(d, Head(keys))),
                   Tail(keys))

CaseInsensitiveDict(d) == LowerKeys(d, [i \in 1..Len(d) |-> d[i][1]])

\* the items of a Cookie header value: content.split(";") and split_two(item, '=')
CookieItems(content) ==
    CASE content = "Session=t" -> << <<"Session", "t">> >>
      [] OTHER -> <<>>

\* int(length) on the values a Content-Length header takes here
IntOf(content) ==
    CASE content = "0" -> [kind |-> "int", n |-> 0]
      [] content = "2" -> [kind |-> "int", n |-> 2]
      [] OTHER -> [kind |-> "invalid", n |-> 0]

RECURSIVE UpdateAll(_, _)
UpdateAll(d, items) ==
    IF items = <<>> THEN d
    ELSE UpdateAll(DictSet(d, Head(items)[1], Head(items)[2]), Tail(items))

\* get_request, lines 178-184: the header lines are sorted into the cookies
\* and the headers; a line is the <<title, content>> that split_two gives
RECURSIVE SortLines(_, _, _)
SortLines(lines, headers, cookies) ==
    IF lines = <<>> THEN [headers |-> headers, cookies |-> cookies]
    ELSE IF Head(lines)[1] = "Cookie"
    THEN SortLines(Tail(lines), headers, UpdateAll(cookies, CookieItems(Head(lines)[2])))
    ELSE SortLines(Tail(lines), DictSet(headers, Head(lines)[1], Head(lines)[2]), cookies)

\* check_content_headers, lines 31-34: the two headers.get calls
ContentHeadersOf(headers) ==
    [clen |-> IF DictHas(headers, "Content-Length")
              THEN IntOf(DictGet(headers, "Content-Length"))
              ELSE [kind |-> "absent", n |-> 0],
     transfer |-> IF DictHas(headers, "Transfer-Encoding")
                  THEN DictGet(headers, "Transfer-Encoding") ELSE "absent"]

\* _read_body, lines 124-133: how the body is read, c being what
\* check_content_headers returned
BodyMode(c, headers) ==
    [exc |-> c.err.exc,
     mode |-> IF c.err.exc # "none" \/ ~c.has THEN "none"
              ELSE IF c.length # 0 THEN "sized" ELSE "chunked",
     length |-> c.length,
     trailer_keys |-> IF c.err.exc = "none" /\ c.has /\ DictHas(headers, "Trailer")
                      THEN DictGet(headers, "Trailer") ELSE "absent"]

\* the pairs of a dict, whatever their order
Pairs(d) == {d[i] : i \in 1..Len(d)}

\* get_request, lines 185-186, once the lines are sorted into s
RequestBuilt(s) ==
    [body |-> BodyMode(CheckContentHeaders(ContentHeadersOf(s.headers), max_content_length),
                       s.headers),
     headers |-> Pairs(CaseInsensitiveDict(s.headers)),
     cookies |-> Pairs(s.cookies)]

\* get_request on the header lines of a well-formed request
HeadersRead(lines) == RequestBuilt(SortLines(lines, <<>>, <<>>))

---------------------------------------------------------------------------
(* mhttp/form.py: _RelativeReadStream, the view a FormFile opens on the     *)
(* bytes [offset, offset + length) of a freshly opened stream; pos is the   *)
(* position of that inner stream                                             *)

\* _relative_stream_opener(...)(): _RelativeReadStream(stream_opener(), offset, length)
RelativeReadStream(data, offset, length) ==
    [data |-> data, pos |-> 0, offset |-> offset, length |-> length, has_init |-> FALSE]

\* _RelativeReadStream.initialize()
Initialize(r) == IF r.has_init THEN r ELSE [r EXCEPT !.pos = r.offset, !.has_init = TRUE]

\* _RelativeReadStream.tell()
RelTell(r) == Initialize(r).pos - r.offset

\* seek(target) of the inner stream: a negative position is refused
\* (ValueError of BytesIO, OSError of a file), one behind the end is taken
InnerSeek(r, target) ==
    IF target < 0 THEN [r |-> r, exc |-> "ValueError"]
    ELSE [r |-> [r EXCEPT !.pos = target], exc |-> "none"]

\* seek, lines 75-84: where the inner stream is sent, r being initialized
RelSeekTarget(r, offset, whence) ==
    CASE whence = 0 -> r.offset + Min(r.length, offset)
      [] whence = 1 -> Min(r.pos + offset, r.offset + r.length)
      [] whence = 2 -> Min(r.offset + r.length, r.offset + r.length + offset)

\* _RelativeReadStream.seek(offset, whence); os.SEEK_SET, SEEK_CUR, SEEK_END
\* are 0, 1, 2
RelSeek(r, offset, whence) ==
    IF whence \notin {0, 1, 2} THEN [r |-> Initialize(r), exc |-> "ValueError"]
    ELSE InnerSeek(Initialize(r), RelSeekTarget(Initialize(r), offset, whence))

\* read(k) of the inner stream: k bytes from pos, all of them for k < 0
InnerRead(r, k) ==
    [r |-> [r EXCEPT !.pos = IF k < 0 THEN Max(r.pos, Len(r.data))
                              ELSE Max(r.pos, Min(r.pos + k, Len(r.data)))],
     res |-> SubSeq(r.data, r.pos + 1, IF k < 0 THEN Len(r.data) ELSE Min(r.pos + k, Len(r.data)))]

\* read, lines 90-92, r being initialized
RelReadInit(r, n) ==
    InnerRead(r, IF n >= 0 THEN Min(r.length - RelTell(r), n) ELSE r.length - RelTell(r))

\* _RelativeReadStream.read(n)
RelRead(r, n) == RelReadInit(Initialize(r), n)

---------------------------------------------------------------------------
(* mhttp/form.py: FormReader over a seekable stream whose bytes are data;   *)
(* the reader is [pos, buffer, field_end, init], pos being the position of  *)
(* the inner stream and buffer the push-back FifoBuffer                      *)

\* bytes.find(pat) / `pat in s`: the first index where pat occurs in s, or -1
FindSeq(s, pat) ==
    LET hits == {i \in 0..(Len(s) - Len(pat)) : SubSeq(s, i + 1, i + Len(pat)) = pat}
    IN  IF hits = {} THEN -1 ELSE CHOOSE i \in hits : \A j \in hits : i <= j

\* str.lower() of the ASCII letters, as CaseInsensitiveDict applies it to keys
LowerByte(c) == IF c >= 65 /\ c <= 90 THEN c + 32 ELSE c

LowerBytes(s) == [i \in 1..Len(s) |-> LowerByte(s[i])]

\* str.replace('"', '')
RECURSIVE Unquote(_)
Unquote(s) ==
    IF s = <<>> THEN <<>>
    ELSE IF s[1] = 34 THEN Unquote(Tail(s)) ELSE <<s[1]>> \o Unquote(Tail(s))

\* FormReader.boundary for the boundary string 'X': ('--' + boundary).encode()
boundary == <<45, 45, 88>>

\* FormReader.boundary_with_nl
boundary_with_nl == <<CR, LF>> \o boundary

\* header_keys.CONTENT_DISPOSITION, lower case
CONTENT_DISPOSITION == <<99, 111, 110, 116, 101, 110, 116, 45, 100, 105, 115, 112, 111, 115, 105, 116, 105, 111, 110>>

\* header_keys.CONTENT_TYPE, lower case
CONTENT_TYPE == <<99, 111, 110, 116, 101, 110, 116, 45, 116, 121, 112, 101>>

\* stream.read(k) of the inner stream at position pos
StreamRead(data, pos, k) == SubSeq(data, pos + 1, Min(pos + k, Len(data)))

\* stream.readline() of the inner stream at position pos
StreamReadLine(data, pos) ==
    IF Find(data, LF, pos, Len(data)) = -1
    THEN SubSeq(data, pos + 1, Len(data))
    ELSE SubSeq(data, pos + 1, Find(data, LF, pos, Len(data)) + 1)

\* FormReader.__init__
FormReaderNew ==
    [pos |-> 0, buffer |-> FifoBufferNew(1024), field_end |-> TRUE, init |-> FALSE]

\* FormReader.__read, lines 130-132, once the buffer gave p
FormReadPopped(fr, data, p, bytes_num) ==
    IF Len(p.res) # bytes_num
    THEN [fr |-> [fr EXCEPT !.buffer = p.buf,
                            !.pos = fr.pos + Len(StreamRead(data, fr.pos, bytes_num - Len(p.res)))],
          res |-> p.res \o StreamRead(data, fr.pos, bytes_num - Len(p.res))]
    ELSE [fr |-> [fr EXCEPT !.buffer = p.buf], res |-> p.res]

\* FormReader.__read(bytes_num)
FormReadBytes(fr, data, bytes_num) ==
    FormReadPopped(fr, data, Pop(fr.buffer, bytes_num), bytes_num)

\* FormReader.__readline, lines 136-139, once the buffer gave p and, when p
\* is no whole line, the inner stream gave more
FormReadLineJoined(fr, p, more) ==
    [fr |-> [fr EXCEPT !.buffer = p.buf, !.pos = fr.pos + Len(more)],
     res |-> SubSeq(p.res \o more, 1, Len(p.res) + Len(more) - 2)]

\* FormReader.__readline()
FormReadLinePopped(fr, data, p) ==
    FormReadLineJoined(fr, p, IF p.res = <<>> \/ p.res[Len(p.res)] # LF
                              THEN StreamReadLine(data, fr.pos) ELSE <<>>)

FormReadLine(fr, data) == FormReadLinePopped(fr, data, PopLine(fr.buffer))

\* a read that hands out the look-ahead bytes as well
FormReadWindowAll(fr, a, buff, at) ==
    IF at # -1
    THEN [fr |-> [fr EXCEPT !.field_end = TRUE,
                            !.buffer = Push(fr.buffer,
                                            SubSeq(a \o buff, at + Len(boundary_with_nl) + 1,
                                                   Len(a) + Len(buff)))],
          res |-> SubSeq(a \o buff, 1, at)]
    ELSE [fr |-> fr, res |-> a \o buff]

\* read, lines 157-167, for bytes_num # -1: a and buff have been read, fr is
\* the reader after both, at is where the boundary starts in a + buff
FormReadWindow(fr, a, buff, at) ==
    IF at # -1
    THEN [fr |-> [fr EXCEPT !.field_end = TRUE,
                            !.buffer = Push(fr.buffer,
                                            SubSeq(a \o buff, at + Len(boundary_with_nl) + 1,
                                                   Len(a) + Len(buff)))],
          res |-> SubSeq(a \o buff, 1, at)]
    ELSE [fr |-> [fr EXCEPT !.buffer = Push(fr.buffer, buff)], res |-> a]

\* read, line 156 on, once line 155 gave a
FormReadSecond(a, r2) ==
    FormReadWindow(r2.fr, a, r2.res, FindSeq(a \o r2.res, boundary_with_nl))

FormReadFirst(r1, data) ==
    FormReadSecond(r1.res, FormReadBytes(r1.fr, data, Len(boundary_with_nl)))

\* FormReader.read(bytes_num) for bytes_num >= 1 (every caller passes one)
FormRead(fr, data, bytes_num) ==
    IF fr.field_end THEN [fr |-> fr, res |-> <<>>]
    ELSE FormReadFirst(FormReadBytes(fr, data, bytes_num), data)

\* FormReader.__skip_to_end, r being the read(1024) just made
RECURSIVE SkipToEndFrom(_, _)
SkipToEndFrom(r, data) ==
    IF r.res = <<>> THEN r.fr ELSE SkipToEndFrom(FormRead(r.fr, data, 1024), data)

SkipToEnd(fr, data) == SkipToEndFrom(FormRead(fr, data, 1024), data)

\* get_header_param(header, param): eq is the bytes of param followed by '='
ParamEnd(h, start) ==
    IF FindSeq(SubSeq(h, start + 1, Len(h)), <<59>>) = -1
    THEN Len(h) ELSE start + FindSeq(SubSeq(h, start + 1, Len(h)), <<59>>)

GetHeaderParam(header, eq) ==
    IF FindSeq(Strip(header), eq) = -1 THEN [found |-> FALSE, value |-> <<>>]
    ELSE [found |-> TRUE,
          value |-> SubSeq(Strip(header), FindSeq(Strip(header), eq) + Len(eq) + 1,
                           ParamEnd(Strip(header), FindSeq(Strip(header), eq) + Len(eq)))]

\* CaseInsensitiveDict: the value last stored under key, headers being the
\* <<key, value>> pairs in the order they were stored
HeaderHas(headers, key) == \E i \in 1..Len(headers) : headers[i][1] = key

HeaderGet(headers, key) ==
    headers[CHOOSE i \in 1..Len(headers) :
                /\ headers[i][1] = key
                /\ \A j \in (i + 1)..Len(headers) : headers[j][1] # key][2]

\* FormMetadata.__init__, lines 238-242: a part without Content-Type gets
\* text/plain, or octet-stream when it has a file name
WithContentType(headers, has_filename) ==
    IF HeaderHas(headers, CONTENT_TYPE) THEN headers
    ELSE Append(headers, <<CONTENT_TYPE, IF has_filename THEN <<97, 112, 112, 108, 105, 99, 97, 116, 105, 111, 110, 47, 111, 99, 116, 101, 116, 45, 115, 116, 114, 101, 97, 109>> ELSE <<116, 101, 120, 116, 47, 112, 108, 97, 105, 110>>>>)

NoMetadata == [exc |-> "none", code |-> 0, name |-> <<>>, filename |-> <<>>, headers |-> <<>>]

\* FormMetadata.__init__ once the name and filename parameters of the
\* Content-Disposition value cd were extracted (the parts modelled carry no
\* Content-Type of their own, so no file name is made up at lines 245-248)
FormMetadataOf(headers, name, filename) ==
    IF name.value = <<>>
    THEN [NoMetadata EXCEPT !.exc = "HttpError", !.code = BAD_REQUEST]
    ELSE [exc |-> "none", code |-> 0, name |-> Unquote(name.value),
          filename |-> Unquote(filename.value),
          headers |-> WithContentType(headers, filename.value # <<>>)]

FormMetadata(headers) ==
    IF ~HeaderHas(headers, CONTENT_DISPOSITION)
    THEN [NoMetadata EXCEPT !.exc = "HttpError", !.code = BAD_REQUEST]
    ELSE FormMetadataOf(headers,
                        GetHeaderParam(HeaderGet(headers, CONTENT_DISPOSITION), <<110, 97, 109, 101, 61>>),
                        GetHeaderParam(HeaderGet(headers, CONTENT_DISPOSITION), <<102, 105, 108, 101, 110, 97, 109, 101, 61>>))

\* FormMetadata.is_file
IsFile(meta) == meta.filename # <<>>

\* next_field, lines 198-207: the header lines up to the empty one; line is
\* what __readline just returned and r.fr the reader after it
RECURSIVE FieldHeaders(_, _, _)
FieldHeaders(r, data, headers) ==
    IF r.res = boundary
    THEN [fr |-> r.fr, exc |-> "HttpError", headers |-> headers]
    ELSE IF r.res = <<>>
    THEN [fr |-> r.fr, exc |-> "none", headers |-> headers]
    ELSE IF FindSeq(r.res, <<58>>) = -1
    THEN [fr |-> r.fr, exc |-> "HttpError", headers |-> headers]
    ELSE FieldHeaders(FormReadLine(r.fr, data), data,
                      Append(headers,
                             <<LowerBytes(Strip(SubSeq(r.res, 1, FindSeq(r.res, <<58>>)))),
                               Strip(SubSeq(r.res, FindSeq(r.res, <<58>>) + 2, Len(r.res)))>>))

\* next_field, lines 208-209, once the header loop gave h
FieldFound(h) ==
    IF h.exc # "none"
    THEN [fr |-> h.fr, kind |-> "HttpError",
          meta |-> [NoMetadata EXCEPT !.exc = "HttpError", !.code = BAD_REQUEST]]
    ELSE [fr |-> [h.fr EXCEPT !.field_end = FALSE],
          kind |-> IF FormMetadata(h.headers).exc = "none" THEN "metadata" ELSE "HttpError",
          meta |-> FormMetadata(h.headers)]

\* next_field, lines 194-196, once __read(2) gave r
FieldStart(r, data) ==
    IF r.res = <<>> \/ r.res = <<45, 45>>
    THEN [fr |-> r.fr, kind |-> "None", meta |-> NoMetadata]
    ELSE FieldFound(FieldHeaders(FormReadLine(r.fr, data), data, <<>>))

\* next_field, lines 192-194
FieldSkipped(fr, data) ==
    FieldStart(FormReadBytes(IF fr.field_end THEN fr ELSE SkipToEnd(fr, data), data, 2), data)

\* FormReader.next_field()
NextField(fr, data) ==
    FieldSkipped(IF fr.init THEN fr ELSE [fr EXCEPT !.pos = Len(boundary), !.init = TRUE], data)

\* FormReader.tell()
FormTell(fr) == fr.pos - BufLen(fr.buffer)

\* _read_to_limit(reader, limit), r being the read(1024) just made
RECURSIVE ReadToLimitFrom(_, _, _, _)
ReadToLimitFrom(r, data, limit, total) ==
    IF r.res = <<>> THEN [fr |-> r.fr, exc |-> "none", value |-> total]
    ELSE IF limit - Len(r.res) < 0 THEN [fr |-> r.fr, exc |-> "HttpError", value |-> <<>>]
    ELSE ReadToLimitFrom(FormRead(r.fr, data, 1024), data, limit - Len(r.res), total \o r.res)

ReadToLimit(fr, data, limit) == ReadToLimitFrom(FormRead(fr, data, 1024), data, limit, <<>>)

\* parse_form, lines 375-378: the length of a file field, r being the
\* read(1024) just made
RECURSIVE FileLengthFrom(_, _, _)
FileLengthFrom(r, data, total) ==
    IF r.res = <<>> THEN [fr |-> r.fr, total |-> total]
    ELSE FileLengthFrom(FormRead(r.fr, data, 1024), data, total + Len(r.res))

RECURSIVE SumLengths(_)
SumLengths(headers) ==
    IF headers = <<>> THEN 0
    ELSE Len(headers[1][1]) + Len(headers[1][2]) + SumLengths(Tail(headers))

\* _meta_length(metadata)
MetaLength(meta) == Len(meta.name) + Len(meta.filename) + SumLengths(meta.headers)

TooLarge(why) == [exc |-> "HttpError", code |-> PAYLOAD_TOO_LARGE, why |-> why,
                  files |-> <<>>, fields |-> <<>>]

RECURSIVE ParseFormLoop(_, _, _, _, _, _, _)

\* parse_form, lines 373-382: a file field that stays in the stream
ParseFile(f, offset, meta, data, i, max_entries, max_mem, files, fields) ==
    IF max_mem - MetaLength(meta) < 0 THEN TooLarge("memory")
    ELSE ParseFormLoop(f.fr, data, i + 1, max_entries, max_mem - MetaLength(meta),
                       Append(files, [name |-> meta.name, offset |-> offset, size |-> f.total]),
                       fields)

\* parse_form, lines 384-390: a field that is read into memory
ParseValue(v, meta, data, i, max_entries, max_mem, files, fields) ==
    IF v.exc # "none" THEN TooLarge("fields")
    ELSE IF max_mem - Len(v.value) < 0 THEN TooLarge("memory")
    ELSE ParseFormLoop(v.fr, data, i + 1, max_entries, max_mem - Len(v.value), files,
                       Append(fields, [name |-> meta.name, value |-> v.value]))

\* parse_form, lines 362-366, once next_field gave nf (no folder is given)
ParseField(nf, data, i, max_entries, max_mem, files, fields) ==
    IF nf.kind = "HttpError"
    THEN [exc |-> "HttpError", code |-> BAD_REQUEST, why |-> "format", files |-> <<>>, fields |-> <<>>]
    ELSE IF nf.kind = "None"
    THEN [exc |-> "none", code |-> 0, why |-> "", files |-> files, fields |-> fields]
    ELSE IF IsFile(nf.meta)
    THEN ParseFile(FileLengthFrom(FormRead(nf.fr, data, 1024), data, 0), FormTell(nf.fr),
                   nf.meta, data, i, max_entries, max_mem, files, fields)
    ELSE ParseValue(ReadToLimit(nf.fr, data, max_mem - Len(nf.meta.name)), nf.meta, data, i,
                    max_entries, max_mem - Len(nf.meta.name), files, fields)

\* parse_form, lines 361-391: iteration i of range(max_entries), and the
\* raise behind the loop
ParseFormLoop(fr, data, i, max_entries, max_mem, files, fields) ==
    IF i = max_entries THEN TooLarge("entries")
    ELSE ParseField(NextField(fr, data), data, i, max_entries, max_mem, files, fields)

\* parse_form(boundary, stream_func, None, max_mem, max_entries)
ParseForm(data, max_mem, max_entries) ==
    ParseFormLoop(FormReaderNew, data, 0, max_entries, max_mem, <<>>, <<>>)

ReaderIdle ==
    /\ rwire = Wire0
    /\ rres = [done |-> FALSE, err |-> NoError, req |-> NoRequest, disk |-> EmptyDisk]

\* FifoBuffer.__init__'s init_size (1024, and 2048 under a BufferedSocket), scaled
InitSize == 4
\* most bytes pushed into the buffer that is driven alone
MaxPushed == 5
\* most bytes popped from it (a pop_line that finds no line makes popped
\* bytes available again, so the pops are not bounded by the pushes)
MaxPopped == 6

BufIdle ==
    /\ buf = FifoBufferNew(InitSize)
    /\ bufOp = [op |-> "init", n |-> 0, res |-> <<>>]
    /\ pushed = 0
    /\ popped = 0

\* the 1024 of BufferedSocket.__max_read, scaled
MaxRecv == 2
\* BufferedSocket.buffer_len (2048, twice the 1024), scaled
SockBufferLen == 4
\* HttpSocketWrapper.max_headers_size (32000, many times the 1024), scaled
MaxHeadersSize == 7
\* most calls made on the socket that is driven alone
MaxCalls == 3

NoSockOp == [op |-> "init", peer |-> <<>>, lines |-> <<>>, exc |-> "none", calls |-> 0]

SockIdle ==
    /\ bsock = BufferedSocketNew(<<>>, MaxRecv, MaxRecv, SockBufferLen)
    /\ sockOp = NoSockOp

NoChunked == [bytes |-> <<>>, chunk_size |-> 1]
NoDecoded == [done |-> FALSE, body |-> <<>>, exc |-> "none", seg |-> 0]

ChunkIdle ==
    /\ cbody = NoChunked
    /\ cwire = <<>>
    /\ cresult = NoDecoded

NoRespOp == [op |-> "init", exc |-> "none", calls |-> 0, plain |-> TRUE,
             sized |-> FALSE, size |-> 0, wire |-> <<>>]
NotSent == [done |-> FALSE, head |-> <<>>, framing |-> "none", body |-> <<>>, exc |-> "none"]

RespIdle ==
    /\ hresp = ResponseNew("HTTP/1.1")
    /\ respOp = NoRespOp
    /\ sent = NotSent

\* most fields of a multipart stream
MaxFields == 2
\* most bytes asked of FormReader.read in one call
MaxReadSize == 31
\* largest max_entries given to parse_form
MaxEntries == 2

\* one part of a multipart body: boundary line, Content-Disposition line,
\* empty line, the field body
Part(f) ==
    boundary \o <<CR, LF>> \o <<67, 111, 110, 116, 101, 110, 116, 45, 68, 105, 115, 112, 111, 115, 105, 116, 105, 111, 110, 58, 110, 97, 109, 101, 61>> \o f.name
        \o (IF f.file THEN <<59, 102, 105, 108, 101, 110, 97, 109, 101, 61, 102>> ELSE <<>>) \o <<CR, LF, CR, LF>> \o f.body \o <<CR, LF>>

RECURSIVE FormStream(_)
FormStream(fields) ==
    IF fields = <<>> THEN boundary \o <<45, 45, CR, LF>>
    ELSE Part(Head(fields)) \o FormStream(Tail(fields))

\* the field bodies tried: empty, one letter, the start of a boundary
FormBodies == {<<>>, <<97>>, <<CR, LF, 45>>}

\* field i is named by the i-th letter
FormFields(k) ==
    {[i \in 1..k |-> [name |-> <<96 + i>>, body |-> c[i][1], file |-> c[i][2]]] :
        c \in [1..k -> FormBodies \X BOOLEAN]}

FormInputs == UNION {FormFields(k) : k \in 0..MaxFields}

NoFormOp == [op |-> "init", kind |-> "none"]
NoParse == [done |-> FALSE, max_entries |-> 0, exc |-> "none", code |-> 0, why |-> "",
            files |-> <<>>, fields |-> <<>>]

FormState(fields, n) ==
    [fields |-> fields, data |-> FormStream(fields), n |-> n, fr |-> FormReaderNew,
     cur |-> <<>>, got |-> <<>>, eof |-> FALSE, ended |-> FALSE]

FormIdle ==
    /\ form = FormState(<<>>, 1)
    /\ formOp = NoFormOp
    /\ pform = NoParse

NoRelOp == [op |-> "init", exc |-> "none", res |-> <<>>, at |-> 0]

RelIdle ==
    /\ rel = RelativeReadStream(<<>>, 0, 0)
    /\ relOp = NoRelOp

\* most header lines of the request whose headers are read alone
MaxHeaderLines == 2

NoHeadersRead == [body |-> [exc |-> "none", mode |-> "none", length |-> 0, trailer_keys |-> "absent"],
                  headers |-> {}, cookies |-> {}]

HeadIdle == hreq = [lines |-> <<>>, done |-> FALSE, res |-> NoHeadersRead]

(***************************************************************************)
(* ExpiringDict and SessionManager.  The inner dictionary is a function    *)
(* from keys to <<value, expiry>>; time() is passed as the reading of the  *)
(* clock at the call.                                                      *)
(***************************************************************************)

\* session_ttl_seconds of the store, in ticks of the clock
SessionTTL == 2
\* last reading of the clock
MaxClock == 4
\* the session objects handed to add_session and set_session
SessionData == {"s1", "s2"}
None == "None"

\* ExpiringDict.__init__
ExpiringDict(ttl) == [ttl |-> ttl, old_len |-> 0, dict |-> <<>>]

\* ExpiringDict.__delitem__ / delete: a missing key is ignored by delete
ExpDelete(e, key) ==
    [e EXCEPT !.dict = [k \in (DOMAIN e.dict) \ {key} |-> e.dict[k]]]

\* ExpiringDict.expire(now): runs when asked to or when the dictionary is at
\* least twice as long as after the last run, and drops exp < time()
Expire(e, now, time) ==
    IF ~now /\ ~(e.old_len * 2 <= Cardinality(DOMAIN e.dict))
    THEN e
    ELSE LET kept == {k \in DOMAIN e.dict : ~(e.dict[k][2] < time)}
         IN  [e EXCEPT !.dict = [k \in kept |-> e.dict[k]],
                       !.old_len = Cardinality(kept)]

\* a store that gives every entry the new expiry
ExpSetItemAll(e, key, value, time) ==
    Expire([e EXCEPT !.dict = [k \in (DOMAIN e.dict) \cup {key} |->
                                  IF k = key THEN <<value, time + e.ttl>>
                                  ELSE <<e.dict[k][1], time + e.ttl>>]],
           FALSE, time)

\* ExpiringDict.__setitem__: (value, time() + ttl), then expire()
ExpSetItem(e, key, value, time) ==
    Expire([e EXCEPT !.dict = [k \in (DOMAIN e.dict) \cup {key} |->
                                  IF k = key THEN <<value, time + e.ttl>> ELSE e.dict[k]]],
           FALSE, time)

\* a get that returns the value of a live entry without storing it again
ExpGetNoTouch(e, key, time) ==
    IF key \notin DOMAIN e.dict
    THEN [e |-> e, res |-> None]
    ELSE IF e.dict[key][2] <= time
         THEN [e |-> ExpDelete(e, key), res |-> None]
         ELSE [e |-> e, res |-> e.dict[key][1]]

\* ExpiringDict.get(key): None for a missing key, None and the entry deleted
\* when its expiry is <= time(), else the entry is stored again (a new
\* expiry) and its value returned
ExpGet(e, key, time) ==
    IF key \notin DOMAIN e.dict
    THEN [e |-> e, res |-> None]
    ELSE IF e.dict[key][2] <= time
         THEN [e |-> ExpDelete(e, key), res |-> None]
         ELSE [e |-> ExpSetItem(e, key, e.dict[key][1], time), res |-> e.dict[key][1]]

\* SessionManager.set_session, get_session, delete_session
SetSession(e, session_key, session_data, time) ==
    ExpSetItem(e, B64Hash(session_key), session_data, time)
GetSession(e, session_key, time) == ExpGet(e, B64Hash(session_key), time)
DeleteSession(e, session_key) == ExpDelete(e, B64Hash(session_key))

NoSessOp == [op |-> "none", key |-> 0, res |-> None, since |-> -1, data |-> None]

\* a fresh SessionManager at clock 0; since is the clock reading of the last
\* insertion or touch of each token (-1 when there is none), data the object
\* last stored under it
SessIdle ==
    sess = [store |-> ExpiringDict(SessionTTL), now |-> 0, next |-> 1,
            since |-> [n \in 1..MaxTokens |-> -1],
            data |-> [n \in 1..MaxTokens |-> None],
            op |-> NoSessOp]

(***************************************************************************)
(* The ExpiringDict shared by two workers.  The inner dict is its entry    *)
(* table in insertion order: a deleted entry leaves a dead slot, a new key *)
(* is appended, a known key is overwritten in place.  An iterator over it  *)
(* keeps a position and the number of entries it started with; the next    *)
(* entry is refused with RuntimeError when that number has changed.  No    *)
(* entry expires here (the clock stands still).                            *)
(***************************************************************************)

\* most slots of the entry table
MaxSlots == 3
\* values stored are 1..MaxValue
MaxValue == 2
SharedKeys == {"a", "b"}

RuntimeError == <<"RuntimeError", 0>>
StopIteration == <<"StopIteration", 0>>

\* len(dict): the entries that are not deleted
LiveSlots(slots) == {i \in 1..Len(slots) : slots[i].live}
SlotOf(slots, key) == {i \in LiveSlots(slots) : slots[i].key = key}

\* dict.__setitem__ of the inner dict
SlotsSet(slots, key, value) ==
    IF SlotOf(slots, key) # {}
    THEN [i \in 1..Len(slots) |->
             IF i \in SlotOf(slots, key) THEN [slots[i] EXCEPT !.value = value] ELSE slots[i]]
    ELSE Append(slots, [key |-> key, value |-> value, live |-> TRUE])

\* dict.__delitem__ of the inner dict
SlotsDel(slots, key) ==
    [i \in 1..Len(slots) |->
        IF i \in SlotOf(slots, key) THEN [slots[i] EXCEPT !.live = FALSE] ELSE slots[i]]

\* iter(dict.items()) as _ExpKeyIter, _ExpValueIter and _ExpItemsIter wrap it
NoIter == [state |-> "none", pos |-> 0, used |-> 0, snap |-> <<>>]
IterOf(slots) ==
    [state |-> "iter", pos |-> 0, used |-> Cardinality(LiveSlots(slots)), snap |-> slots]

\* __next__ of the three view iterators: the state of the iterator after the
\* call and what the call gives
IterNext(it, slots) ==
    LET ahead == {i \in LiveSlots(slots) : i > it.pos}
        nxt == CHOOSE i \in ahead : \A j \in ahead : i <= j
    IN  IF it.state = "error" \/ Cardinality(LiveSlots(slots)) # it.used
        THEN [it |-> [it EXCEPT !.state = "error"], res |-> RuntimeError]
        ELSE IF ahead = {}
             THEN [it |-> [it EXCEPT !.state = "done"], res |-> StopIteration]
             ELSE [it |-> [it EXCEPT !.pos = nxt], res |-> <<slots[nxt].key, slots[nxt].value>>]

NoSharedOp == [op |-> "none", res |-> StopIteration, lock |-> 0]

\* an empty store, its lock free, worker 2 outside __setitem__, worker 1
\* without an iterator
ShIdle ==
    shared = [slots |-> <<>>, lock |-> 0, pc |-> "idle", it |-> NoIter, op |-> NoSharedOp]

\* most bytes pushed into the buffer whose history is kept: enough for a push
\* beyond the capacity after a pop
MaxFifoPushed == 6

\* a FifoBuffer with the history of its caller: the bytes pushed and the
\* bytes the pops returned, in order; lines tells whether pop_line was used
NoFifoOp == [op |-> "init", res |-> <<>>, before |-> <<>>]
FifoIdle ==
    fifo = [buf |-> FifoBufferNew(InitSize), pushed |-> <<>>, popped |-> <<>>,
            lines |-> FALSE, op |-> NoFifoOp]

(***************************************************************************)
(* HttpSocketWrapper and its per-request budgets, one step per read of the *)
(* socket.  time, size and hsize are _remaining_time, _remaining_size and  *)
(* _remaining_header_size; the clock is counted in ticks.                  *)
(***************************************************************************)

\* HttpSocketWrapper.request_timeout (100 seconds), in ticks
RequestTimeout == 3
\* most ticks one read of the socket takes
MaxElapsed == 1
\* most header or trailer lines of one request
MaxLines == 2

\* HttpSocketWrapper.reset_timers
ResetTimers(t) ==
    [t EXCEPT !.time = RequestTimeout, !.size = MaxContentLength, !.hsize = MaxHeadersSize]

\* __read_stuff: the read took elapsed ticks; a budget below 0 is a 408
ReadStuff(t, elapsed) ==
    IF t.time - elapsed < 0
    THEN [t EXCEPT !.time = t.time - elapsed, !.phase = "error", !.code = REQUEST_TIMEOUT,
                   !.mid = FALSE]
    ELSE [t EXCEPT !.time = t.time - elapsed]

\* _read_body, lines 136-138: the body is complete
BodyComplete(t) == [ResetTimers(t) EXCEPT !.phase = "done", !.mid = FALSE]

\* HttpSocketWrapper.__init__ on a connection that has not sent anything
TimerNew ==
    [phase |-> "idle", time |-> RequestTimeout, size |-> MaxContentLength,
     hsize |-> MaxHeadersSize, body |-> "none", trailer |-> FALSE, left |-> 0, lines |-> 0,
     chunks |-> 0, mid |-> FALSE, code |-> 0, requests |-> 0]

TimerIdle == tmr = TimerNew

(***************************************************************************)
(* Two requests written one after the other on one connection, and         *)
(* ServerSocketWrapper.get_request called on it.  wire is what the peer    *)
(* writes, seg how many bytes one recv delivers at most, rest what is      *)
(* buffered or still on the way after the last call.                       *)
(***************************************************************************)

\* most bytes one recv delivers on the connection with two requests
MaxSeg == 96

NoPipe ==
    [wire |-> <<>>, second |-> <<>>, seg |-> 1, calls |-> 0, lines |-> <<>>, body |-> <<>>,
     exc |-> "none", rest |-> <<>>, lines2 |-> <<>>, exc2 |-> "none", rest2 |-> <<>>]

PipeIdle == pipe = NoPipe

ExtIdle == FormIdle /\ RelIdle /\ HeadIdle /\ SessIdle /\ ShIdle /\ FifoIdle /\ TimerIdle /\ PipeIdle

\* the components of the first group are at rest
CoreIdle == BodyIdle /\ ReaderIdle /\ BufIdle /\ SockIdle /\ ChunkIdle /\ RespIdle

\* everything that is driven on its own is at rest
LibIdle == CoreIdle /\ ExtIdle

---------------------------------------------------------------------------
(* HttpServer.handle_client, one action per step of the connection loop *)

facOnlyVars == <<fac, appended, fbody, fop, libVars>>

ConnInit ==
    /\ pc = "read"
    /\ sockClosed = FALSE
    /\ reqNo = 0
    /\ wireHead = WireHead(Wire0)
    /\ readErr = NoError
    /\ request = NoRequest
    /\ handlerErr = NoError
    /\ handled = FALSE
    /\ response = NoResponse
    /\ emitted = <<>>
    /\ logged = 0
    /\ leave = "none"
    /\ sessions = {}
    /\ nextToken = 1

\* lines 75-86 once get_request returned or raised r.err, up to the emission
\* of the error response.  `except OSError:` binds no name, so its
\* self.log_error(e) raises UnboundLocalError, which leaves handle_client.
AfterGetRequest(r) ==
    /\ disk' = r.disk
    /\ nextPath' = r.next
    /\ readErr' = r.err
    /\ request' = IF r.err.exc = "none" THEN r.req ELSE request
    /\ response' = CASE r.err.exc = "none" -> response
                     [] r.err.exc = "HttpError" -> ErrorResp(r.err.code, r.err)
                     [] r.err.exc = "OSError" -> response
                     [] OTHER -> ErrorResp(INTERNAL_SERVER_ERROR, NoError)
    /\ logged' = IF r.err.exc \in {"none", "HttpError", "OSError"}
                 THEN logged ELSE logged + 1
    /\ leave' = IF r.err.exc = "OSError" THEN "UnboundLocalError" ELSE "none"
    /\ pc' = CASE r.err.exc = "none" -> "handle"
               [] r.err.exc = "OSError" -> "exit"
               [] OTHER -> "read_err_send"

\* lines 75-86: request = ssw.get_request() and its except clauses
GetRequest ==
    /\ pc = "read"
    /\ reqNo < MaxRequests
    /\ \E w \in WireRequests :
        /\ wireHead' = WireHead(w)
        /\ AfterGetRequest(GetRequestResult(w, disk, nextPath))
    /\ reqNo' = reqNo + 1
    /\ handled' = FALSE
    /\ handlerErr' = NoError
    /\ emitted' = <<>>
    /\ UNCHANGED <<sockClosed, sessions, nextToken, facOnlyVars>>

\* lines 78-79 and 85-86: the error response of a failed read is sent, then
\* break; an exception of the send leaves handle_client
SendReadError ==
    /\ pc = "read_err_send"
    /\ \E ok \in BOOLEAN :
        /\ emitted' = Append(emitted, Emission(response, ok))
        /\ leave' = IF ok THEN "break" ELSE "OSError"
    /\ pc' = "exit"
    /\ UNCHANGED <<sockClosed, reqNo, wireHead, readErr, request, handlerErr, handled, response,
                   logged, sessions, nextToken, factoryVars, libVars>>

\* lines 87-97 up to the emission of an error response: handle_request
\* (lines 55-69) calls the handler and settles the session
HandleRequest ==
    /\ pc = "handle"
    /\ \E o \in HandlerOutcomes :
        /\ o.kind = "return" /\ o.session = "nonempty" => nextToken <= MaxTokens
        /\ handled' = TRUE
        /\ IF o.kind = "return"
           THEN LET s == HandleSession(o, request, HandlerResponse(o), sessions, nextToken)
                IN  /\ response' = s.resp
                    /\ sessions' = s.store
                    /\ nextToken' = s.tok
                    /\ handlerErr' = NoError
                    /\ pc' = "handle_finally"
                    /\ UNCHANGED logged
           ELSE /\ handlerErr' = IF o.kind = "HttpError" THEN HttpError(o.code, o.msg)
                                 ELSE Raised("Exception")
                /\ response' = IF o.kind = "HttpError"
                               THEN ErrorResp(o.code, HttpError(o.code, o.msg))
                               ELSE ErrorResp(INTERNAL_SERVER_ERROR, NoError)
                /\ logged' = IF o.kind = "HttpError" THEN logged ELSE logged + 1
                /\ pc' = "handle_err_send"
                /\ UNCHANGED <<sessions, nextToken>>
    /\ leave' = "none"
    /\ UNCHANGED <<sockClosed, reqNo, wireHead, readErr, request, emitted, factoryVars, libVars>>

\* lines 92-93 and 96-97: the error response of a failed handler is sent,
\* then break; the finally clause runs next, also when the send raised
SendHandlerError ==
    /\ pc = "handle_err_send"
    /\ \E ok \in BOOLEAN :
        /\ emitted' = Append(emitted, Emission(response, ok))
        /\ leave' = IF ok THEN "break" ELSE "OSError"
    /\ pc' = "handle_finally"
    /\ UNCHANGED <<sockClosed, reqNo, wireHead, readErr, request, handlerErr, handled, response,
                   logged, sessions, nextToken, factoryVars, libVars>>

\* lines 98-99: finally: request.delete()
RequestDelete ==
    /\ pc = "handle_finally"
    /\ LET r == HttpRequestDelete(request, disk)
       IN  /\ request' = r.req
           /\ disk' = r.disk
           /\ leave' = IF r.exc # "none" THEN r.exc ELSE leave
           /\ pc' = IF r.exc = "none" /\ leave = "none" THEN "emit" ELSE "exit"
    /\ UNCHANGED <<sockClosed, reqNo, wireHead, readErr, handlerErr, handled, response, emitted,
                   logged, sessions, nextToken, nextPath, facOnlyVars>>

\* lines 100-104: ssw.send_response(response); an exception is logged, break
SendResponse ==
    /\ pc = "emit"
    /\ \E ok \in BOOLEAN :
        /\ emitted' = Append(emitted, Emission(response, ok))
        /\ leave' = IF ok THEN "none" ELSE "break"
        /\ logged' = IF ok THEN logged ELSE logged + 1
    /\ pc' = "emit_finally"
    /\ UNCHANGED <<sockClosed, reqNo, wireHead, readErr, request, handlerErr, handled, response,
                   sessions, nextToken, factoryVars, libVars>>

\* lines 105-108: finally: response.delete(); then, unless a break or an
\* exception is on its way, the loop goes on when response.keep_connection
ResponseDelete ==
    /\ pc = "emit_finally"
    /\ LET r == HttpResponseDelete(response)
       IN  /\ response' = r.resp
           /\ leave' = IF r.exc # "none" THEN r.exc
                       ELSE IF leave = "none" /\ KeepConnection(response.connection)
                       THEN "none" ELSE "break"
           /\ pc' = IF r.exc = "none" /\ leave = "none" /\ KeepConnection(response.connection)
                    THEN "read" ELSE "exit"
    /\ UNCHANGED <<sockClosed, reqNo, wireHead, readErr, request, handlerErr, handled, emitted,
                   logged, sessions, nextToken, factoryVars, libVars>>

\* line 72: the with statement is left, by break or by an exception
Exit ==
    /\ pc = "exit"
    /\ sockClosed' = BufferedSocketExit(sockClosed, leave)
    /\ pc' = "left"
    /\ UNCHANGED <<reqNo, wireHead, readErr, request, handlerErr, handled, response, emitted,
                   logged, leave, sessions, nextToken, factoryVars, libVars>>

FactoryIdle ==
    /\ fac = TempFileFactoryNew(MaxMem)
    /\ appended = <<>>
    /\ fbody = NoBody
    /\ fop = [op |-> "init", exc |-> "none"]

Init ==
    /\ disk = EmptyDisk
    /\ nextPath = 1
    /\ FactoryIdle
    /\ ConnInit
    /\ LibIdle

Next ==
    \/ GetRequest
    \/ SendReadError
    \/ HandleRequest
    \/ SendHandlerError
    \/ RequestDelete
    \/ SendResponse
    \/ ResponseDelete
    \/ Exit

Spec == Init /\ [][Next]_vars

---------------------------------------------------------------------------
(* A TempFileFactory driven by an arbitrary caller *)

FactoryInit ==
    /\ disk = EmptyDisk
    /\ nextPath = 1
    /\ fac \in {TempFileFactoryNew(m) : m \in 0..MaxMem}
    /\ appended = <<>>
    /\ fbody = NoBody
    /\ fop = [op |-> "init", exc |-> "none"]
    /\ ConnInit
    /\ LibIdle

FAppend ==
    \E received \in Pieces :
        /\ Len(appended) + Len(received) <= MaxTotal
        /\ LET r == AppendToFile(fac, disk, nextPath, received)
           IN  /\ fac' = r.fac
               /\ disk' = r.disk
               /\ nextPath' = r.next
               /\ appended' = IF r.exc = "none" THEN appended \o received ELSE appended
               /\ fop' = [op |-> "append", exc |-> r.exc]
        /\ UNCHANGED <<fbody, connVars, libVars>>

FSetMaxMemSize ==
    \E val \in 0..MaxMem :
        /\ val # fac.max_mem_size
        /\ LET r == SetMaxMemSize(fac, disk, nextPath, val)
           IN  /\ fac' = r.fac
               /\ disk' = r.disk
               /\ nextPath' = r.next
               /\ fop' = [op |-> "set_max", exc |-> r.exc]
        /\ UNCHANGED <<appended, fbody, connVars, libVars>>

FGetFile ==
    /\ LET r == GetFile(fac)
       IN  /\ fac' = r.fac
           /\ fbody' = r.file
    /\ fop' = [op |-> "get_file", exc |-> "none"]
    /\ UNCHANGED <<disk, nextPath, appended, connVars, libVars>>

\* clear() starts the factory over: the history of appended bytes restarts.
FClear ==
    /\ nextPath <= MaxFiles
    /\ LET r == Clear(fac, disk)
       IN  /\ fac' = r.fac
           /\ disk' = r.disk
           /\ fop' = [op |-> "clear", exc |-> r.exc]
    /\ appended' = <<>>
    /\ UNCHANGED <<nextPath, fbody, connVars, libVars>>

FactoryNext == FAppend \/ FSetMaxMemSize \/ FGetFile \/ FClear

SpecFactory == FactoryInit /\ [][FactoryNext]_vars

---------------------------------------------------------------------------
(* A TempFile handle driven by an arbitrary handler *)

\* everything but the handle that is driven
notBodyVars == <<factoryVars, connVars, readerVars, bufVars, sockVars, chunkVars, respVars, extVars>>

\* the handle get_file returned: in memory, or on disk with its file
BodyInit ==
    /\ \E content \in Pieces :
          \/ tf = TempFileSmall(content) /\ tfdisk = EmptyDisk
          \/ /\ Len(content) > 0
             /\ tf = TempFileBig(TempPath, Len(content))
             /\ tfdisk = WriteFile(EmptyDisk, TempPath, content)
    /\ tfop = [op |-> "init", exc |-> "none", ignored |-> "none"]
    /\ unlinks = 0
    /\ disk = EmptyDisk
    /\ nextPath = 1
    /\ FactoryIdle
    /\ ConnInit
    /\ ReaderIdle /\ BufIdle /\ SockIdle /\ ChunkIdle /\ RespIdle /\ ExtIdle

\* the temp file is gone from the temp directory after the step
Unlinked(d, e) == IF TempPath \in DOMAIN d /\ TempPath \notin DOMAIN e THEN 1 ELSE 0

BodyStep(op, r, ignored) ==
    /\ tf' = r.body
    /\ tfdisk' = r.disk
    /\ tfop' = [op |-> op, exc |-> IF ignored THEN "none" ELSE r.exc,
                ignored |-> IF ignored THEN r.exc ELSE "none"]
    /\ unlinks' = unlinks + Unlinked(tfdisk, r.disk)
    /\ UNCHANGED notBodyVars

TFDelete ==
    /\ tfop.op # "drop"
    /\ BodyStep("delete", TempFileDelete(tf, tfdisk), FALSE)

TFMoveTo ==
    /\ tfop.op # "drop"
    /\ \E dest \in Dests : BodyStep("move_to", TempFileMoveTo(tf, tfdisk, dest), FALSE)

TFCopyTo ==
    /\ tfop.op # "drop"
    /\ \E dest \in Dests : BodyStep("copy_to", TempFileCopyTo(tf, tfdisk, dest), FALSE)

\* the handle is dropped: TempFile.__del__ calls delete(), and what delete()
\* raises there is reported on stderr and otherwise ignored
TFDrop ==
    /\ tfop.op # "drop"
    /\ BodyStep("drop", TempFileDelete(tf, tfdisk), TRUE)

BodyNext == TFDelete \/ TFMoveTo \/ TFCopyTo \/ TFDrop

SpecBody == BodyInit /\ [][BodyNext]_vars

---------------------------------------------------------------------------
(* One get_request call on every request a client can send *)

notReaderVars == <<factoryVars, connVars, bodyVars, bufVars, sockVars, chunkVars, respVars, extVars>>

ReaderInit ==
    /\ rwire \in WireRequests
    /\ rres = [done |-> FALSE, err |-> NoError, req |-> NoRequest, disk |-> EmptyDisk]
    /\ disk = EmptyDisk
    /\ nextPath = 1
    /\ FactoryIdle
    /\ ConnInit
    /\ BodyIdle /\ BufIdle /\ SockIdle /\ ChunkIdle /\ RespIdle /\ ExtIdle

\* what the caller of get_request sees of its result r
ReaderResult(r) == [done |-> TRUE, err |-> r.err, req |-> r.req, disk |-> r.disk]

\* ssw.get_request() on a fresh connection with an empty temp directory
ReaderGet ==
    /\ ~rres.done
    /\ rres' = ReaderResult(GetRequestResult(rwire, EmptyDisk, 1))
    /\ UNCHANGED <<rwire, notReaderVars>>

\* the connection is given up after the call
ReaderClose ==
    /\ rres.done
    /\ rres' = [done |-> FALSE, err |-> NoError, req |-> NoRequest, disk |-> EmptyDisk]
    /\ rwire' = Wire0
    /\ UNCHANGED notReaderVars

ReaderNext == ReaderGet \/ ReaderClose

SpecReader == ReaderInit /\ [][ReaderNext]_vars

---------------------------------------------------------------------------
(* A FifoBuffer driven by an arbitrary caller *)

notBufVars == <<factoryVars, connVars, bodyVars, readerVars, sockVars, chunkVars, respVars, extVars>>

BufInit ==
    /\ BufIdle
    /\ disk = EmptyDisk
    /\ nextPath = 1
    /\ FactoryIdle
    /\ ConnInit
    /\ BodyIdle /\ ReaderIdle /\ SockIdle /\ ChunkIdle /\ RespIdle /\ ExtIdle

\* the byte strings a caller pushes
BufPieces == SeqsUpTo({LetterA, LF}, MaxPiece)

BufPush ==
    \E data \in BufPieces :
        /\ pushed + Len(data) <= MaxPushed
        /\ buf' = Push(buf, data)
        /\ bufOp' = [op |-> "push", n |-> Len(data), res |-> <<>>]
        /\ pushed' = pushed + Len(data)
        /\ UNCHANGED <<popped, notBufVars>>

BufPeek ==
    \E n \in 0..MaxPiece :
        /\ bufOp' = [op |-> "peek", n |-> n, res |-> Peek(buf, n)]
        /\ UNCHANGED <<buf, pushed, popped, notBufVars>>

\* a pop operation returned r
BufPopped(op, n, r) ==
    /\ popped + Len(r.res) <= MaxPopped
    /\ buf' = r.buf
    /\ bufOp' = [op |-> op, n |-> n, res |-> r.res]
    /\ popped' = popped + Len(r.res)

BufPop ==
    /\ \E n \in 0..MaxPiece : BufPopped("pop", n, Pop(buf, n))
    /\ UNCHANGED <<pushed, notBufVars>>

BufPopLine ==
    /\ BufPopped("pop_line", 0, PopLine(buf))
    /\ UNCHANGED <<pushed, notBufVars>>

BufNext == BufPush \/ BufPeek \/ BufPop \/ BufPopLine

SpecBuffer == BufInit /\ [][BufNext]_vars

---------------------------------------------------------------------------
(* A BufferedSocket driven alone: the peer writes a block of header lines, *)
(* each ended by CR LF, and the empty line that ends the block.            *)

notSockVars == <<factoryVars, connVars, bodyVars, readerVars, bufVars, chunkVars, respVars, extVars>>

\* n letters
Letters(n) == [i \in 1..n |-> LetterA]

\* the bytes of a block of lines on the wire
RECURSIVE WireOfLines(_)
WireOfLines(lines) ==
    IF lines = <<>> THEN <<CR, LF>>
    ELSE Head(lines) \o <<CR, LF>> \o WireOfLines(Tail(lines))

\* the blocks the peer writes: one line of up to one byte more than the
\* limit allows, alone or followed by a short line
PeerBlocks ==
    {<<Letters(n)>> : n \in 1..(MaxHeadersSize - 1)}
        \cup {<<Letters(n), Letters(m)>> : n \in 1..(MaxHeadersSize - 1), m \in 1..2}

\* how many bytes one recv delivers at most: byte by byte, the unit, or
\* everything that is there
Segments == {1, MaxRecv, 3 * MaxHeadersSize}

SockInit ==
    /\ disk = EmptyDisk
    /\ nextPath = 1
    /\ FactoryIdle
    /\ ConnInit
    /\ BodyIdle /\ ReaderIdle /\ BufIdle /\ ChunkIdle /\ RespIdle /\ ExtIdle
    /\ \E peer \in PeerBlocks, seg \in Segments :
          /\ bsock = BufferedSocketNew(WireOfLines(peer), seg, MaxRecv, SockBufferLen)
          /\ sockOp = [NoSockOp EXCEPT !.peer = peer]

\* HttpSocketWrapper._get_headers_strings on a fresh connection
SockGetHeaders ==
    /\ sockOp.calls = 0
    /\ bsock' = GetHeadersStrings(bsock, MaxHeadersSize).sock
    /\ sockOp' = [sockOp EXCEPT !.op = "get_headers", !.calls = 1,
                                !.lines = GetHeadersStrings(bsock, MaxHeadersSize).lines,
                                !.exc = GetHeadersStrings(bsock, MaxHeadersSize).exc]
    /\ UNCHANGED notSockVars

\* one BufferedSocket.read_line(max_headers_size)
SockReadLine ==
    /\ sockOp.op \in {"init", "read_line", "read"}
    /\ sockOp.exc = "none"
    /\ sockOp.calls < MaxCalls
    /\ bsock' = ReadLine(bsock, MaxHeadersSize).sock
    /\ sockOp' = [sockOp EXCEPT !.op = "read_line", !.calls = @ + 1,
                                !.lines = Append(@, ReadLine(bsock, MaxHeadersSize).line),
                                !.exc = ReadLine(bsock, MaxHeadersSize).exc]
    /\ UNCHANGED notSockVars

\* one BufferedSocket.read(size)
SockRead ==
    /\ sockOp.op \in {"init", "read_line", "read"}
    /\ sockOp.exc = "none"
    /\ sockOp.calls < MaxCalls
    /\ \E size \in 1..MaxRecv :
          /\ bsock' = SocketRead(bsock, size).sock
          /\ sockOp' = [sockOp EXCEPT !.op = "read", !.calls = @ + 1,
                                      !.lines = Append(@, SocketRead(bsock, size).data),
                                      !.exc = SocketRead(bsock, size).exc]
    /\ UNCHANGED notSockVars

SockNext == SockGetHeaders \/ SockReadLine \/ SockRead

SpecSocket == SockInit /\ [][SockNext]_vars

---------------------------------------------------------------------------
(* A body sent by _send_chunked and read back by __read_body_chunked.      *)

notChunkVars == <<factoryVars, connVars, bodyVars, readerVars, bufVars, sockVars, respVars, extVars>>

\* longest body and largest chunk size that are sent
MaxBodyLen == 3
MaxChunkSize == 3

\* b"hello world" and the wire bytes of it in chunks of 5 and 6
HelloWorld == <<104, 101, 108, 108, 111, 32, 119, 111, 114, 108, 100>>
HelloWorldWire ==
    <<53, CR, LF>> \o SubSeq(HelloWorld, 1, 5) \o <<CR, LF>>
        \o <<54, CR, LF>> \o SubSeq(HelloWorld, 6, 11) \o <<CR, LF>>
        \o <<48, CR, LF, CR, LF>>

\* bodies of letters, digits' neighbours and newlines
ChunkBodies == SeqsUpTo({LetterA, LF, 104}, MaxBodyLen)

\* how many bytes one recv delivers at most
ChunkSegments == {1, 2, max_read_unit}

ChunkInit ==
    /\ disk = EmptyDisk
    /\ nextPath = 1
    /\ FactoryIdle
    /\ ConnInit
    /\ BodyIdle /\ ReaderIdle /\ BufIdle /\ SockIdle /\ RespIdle /\ ExtIdle
    /\ cresult = NoDecoded
    /\ \/ /\ cbody \in [bytes : ChunkBodies, chunk_size : 1..MaxChunkSize]
          /\ cwire = <<>>
       \/ /\ cbody = [bytes |-> HelloWorld, chunk_size |-> 6]
          /\ cwire = HelloWorldWire

\* _send_chunked(response.body, chunk_size)
ChunkEncode ==
    /\ cwire = <<>>
    /\ cwire' = SendChunked(cbody.bytes, cbody.chunk_size)
    /\ UNCHANGED <<cbody, cresult, notChunkVars>>

\* __read_body_chunked on a connection that delivers the wire bytes
ChunkDecode ==
    /\ cwire # <<>>
    /\ ~cresult.done
    /\ \E seg \in ChunkSegments :
          cresult' = [done |-> TRUE, seg |-> seg,
                      body |-> ReadBodyChunkedWire(
                                   BufferedSocketNew(cwire, seg, max_read_unit, buffer_len),
                                   <<>>, max_content_length).body,
                      exc |-> ReadBodyChunkedWire(
                                   BufferedSocketNew(cwire, seg, max_read_unit, buffer_len),
                                   <<>>, max_content_length).exc]
    /\ UNCHANGED <<cbody, cwire, notChunkVars>>

ChunkNext == ChunkEncode \/ ChunkDecode

SpecChunked == ChunkInit /\ [][ChunkNext]_vars

---------------------------------------------------------------------------
(* An HttpResponse in the hands of a handler, then sent.  respOp.plain     *)
(* says that the handler wrote Transfer-Encoding only before a body was    *)
(* set and only with tokens that are not chunked; sized and size are what  *)
(* the last body call that took effect was given.                          *)

notRespVars == <<factoryVars, connVars, bodyVars, readerVars, bufVars, sockVars, chunkVars, extVars>>

\* most calls made on one response
MaxRespOps == 4

\* b"hi"
Hi == <<104, 105>>

\* the values a handler writes into Transfer-Encoding
UserEncodings == {<<"gzip">>, <<"GZIP">>, <<"chunked", "gzip">>, <<"gzip", " chunked">>}

RespInit ==
    /\ disk = EmptyDisk
    /\ nextPath = 1
    /\ FactoryIdle
    /\ ConnInit
    /\ BodyIdle /\ ReaderIdle /\ BufIdle /\ SockIdle /\ ChunkIdle /\ ExtIdle
    /\ \E protocol \in {"", "HTTP/1.1"} : hresp = ResponseNew(protocol)
    /\ respOp = NoRespOp
    /\ sent = NotSent

RespOpen == ~sent.done /\ respOp.calls < MaxRespOps

\* the record of a body call that returned res
BodyCalled(op, res, effective, sized, size) ==
    [respOp EXCEPT !.op = op, !.exc = res.exc, !.calls = @ + 1, !.wire = <<>>,
                   !.sized = IF effective THEN sized ELSE @,
                   !.size = IF effective THEN size ELSE @]

\* response.set_body(text) for a str
RespSetBody ==
    /\ RespOpen
    /\ \E bytes \in {<<>>, Hi} :
          /\ hresp' = SetBody(hresp, bytes, TEXT_PLAIN).resp
          /\ respOp' = BodyCalled("set_body", SetBody(hresp, bytes, TEXT_PLAIN),
                                   bytes # <<>>, TRUE, Len(bytes))
    /\ UNCHANGED <<sent, notRespVars>>

\* response.set_body_stream(stream, size) and response.set_body(stream, size)
RespSetBodyStream ==
    /\ RespOpen
    /\ \E given \in BOOLEAN, size \in 0..1, direct \in BOOLEAN :
          /\ given \/ size = 0
          /\ hresp' = IF direct THEN SetBodyStream(hresp, <<LetterA>>, given, size).resp
                                ELSE SetBodyOfStream(hresp, <<LetterA>>, given, size).resp
          /\ respOp' = BodyCalled("set_body_stream",
                                   IF direct THEN SetBodyStream(hresp, <<LetterA>>, given, size)
                                             ELSE SetBodyOfStream(hresp, <<LetterA>>, given, size),
                                   TRUE, given /\ size # 0, size)
    /\ UNCHANGED <<sent, notRespVars>>

\* response.headers[key] = value by the handler
RespSetHeader ==
    /\ RespOpen
    /\ \/ \E te \in UserEncodings :
             /\ hresp' = [hresp EXCEPT !.order = SetKey(@, "transfer-encoding"), !.te = te]
             /\ respOp' = [respOp EXCEPT !.op = "set_header", !.exc = "none", !.calls = @ + 1,
                                         !.wire = <<>>,
                                         !.plain = @ /\ ~hresp.body.set /\ ~ContainsChunked(te)]
       \/ \E key \in {"server", "connection"} :
             /\ hresp' = [hresp EXCEPT !.order = SetKey(@, key)]
             /\ respOp' = [respOp EXCEPT !.op = "set_header", !.exc = "none", !.calls = @ + 1,
                                         !.wire = <<>>]
    /\ UNCHANGED <<sent, notRespVars>>

\* response.add_cookie(name, value)
RespAddCookie ==
    /\ RespOpen
    /\ \E name \in {"Session", "lang"} :
          hresp' = [hresp EXCEPT !.cookies = SetKey(@, name)]
    /\ respOp' = [respOp EXCEPT !.op = "add_cookie", !.exc = "none", !.calls = @ + 1, !.wire = <<>>]
    /\ UNCHANGED <<sent, notRespVars>>

\* response.set_header_order(first_headers, last_headers)
RespSetHeaderOrder ==
    /\ RespOpen
    /\ hresp.first = first_headers
    /\ hresp' = [hresp EXCEPT !.first = <<"connection">>, !.last = <<"content-length">>]
    /\ respOp' = [respOp EXCEPT !.op = "set_header_order", !.exc = "none", !.calls = @ + 1,
                                !.wire = <<>>]
    /\ UNCHANGED <<sent, notRespVars>>

\* response.chunk_size = n by the handler: the class has no such attribute
RespSetChunkSize ==
    /\ RespOpen
    /\ hresp.chunk_size = 0
    /\ \E n \in 1..2 : hresp' = [hresp EXCEPT !.chunk_size = n]
    /\ respOp' = [respOp EXCEPT !.op = "set_chunk_size", !.exc = "none", !.calls = @ + 1,
                                !.wire = <<>>]
    /\ UNCHANGED <<sent, notRespVars>>

\* response.get_header_string()
RespGetHeaderString ==
    /\ RespOpen
    /\ respOp.op # "get_header_string"
    /\ respOp' = [respOp EXCEPT !.op = "get_header_string", !.calls = @ + 1,
                                !.exc = GetHeaderString(hresp).exc,
                                !.wire = GetHeaderString(hresp).wire]
    /\ UNCHANGED <<hresp, sent, notRespVars>>

\* ServerSocketWrapper.send_response(response)
RespSend ==
    /\ ~sent.done
    /\ respOp.calls > 0
    /\ sent' = [done |-> TRUE, head |-> SendResponseWire(hresp).head,
                framing |-> SendResponseWire(hresp).framing,
                body |-> SendResponseWire(hresp).body, exc |-> SendResponseWire(hresp).exc]
    /\ UNCHANGED <<hresp, respOp, notRespVars>>

RespNext ==
    \/ RespSetBody \/ RespSetBodyStream \/ RespSetHeader \/ RespAddCookie
    \/ RespSetHeaderOrder \/ RespSetChunkSize \/ RespGetHeaderString \/ RespSend

SpecResponse == RespInit /\ [][RespNext]_vars

---------------------------------------------------------------------------
(* Claims about the connection loop *)

\* the body resources of a request are released: an in-memory body has
\* dropped its content (or has none), a disk body has given up its path
Released(req) ==
    CASE req.body.kind = "small" -> ~req.body.hasContent \/ Len(req.body.content) = 0
      [] req.body.kind = "big"   -> req.body.path = NoPath
      [] OTHER                   -> TRUE

\* C1: after a response was emitted without error the loop reads another
\* request if and only if the response is keep-alive, for every response the
\* handler can return, with or without a body.
C1_ContinueIffKeepAlive ==
    [][(pc = "emit_finally" /\ emitted[Len(emitted)].ok)
          => (pc' = "read" <=> KeepConnection(response.connection))]_vars

\* C2: a request that carries Connection: close ends the connection loop
\* after its response is emitted, whatever Connection header the response of
\* the handler carries.
C2_RequestCloseEndsLoop ==
    [][(pc = "emit_finally" /\ ~KeepConnection(request.connection)) => pc' # "read"]_vars

\* C3: whatever path leaves handle_client, the socket of the connection has
\* been closed when it is left.
C3_SocketClosedOnExit == pc = "left" => sockClosed

\* handle_client was left by the AttributeError of response.delete()
C3_Witness == pc = "left" /\ leave = "AttributeError" /\ sockClosed

\* C4: if reading a request raises HttpError(code, msg), exactly one error
\* response with that status code and msg as its body is handed to
\* send_response, the handler is not invoked for that request, and the loop
\* exits.
C4_ReadErrorResponse ==
    readErr.exc = "HttpError" =>
        /\ pc \in {"read_err_send", "exit", "left"}
        /\ ~handled
        /\ pc = "read_err_send" => emitted = <<>>
        /\ pc \in {"exit", "left"} =>
               /\ Len(emitted) = 1
               /\ emitted[1].code = readErr.code
               /\ emitted[1].text = readErr.msg

\* the second request of a connection announced too long a body and got 413
C4_Witness ==
    /\ pc = "left"
    /\ reqNo > 1
    /\ readErr = HttpError(PAYLOAD_TOO_LARGE, "Content length too big")
    /\ emitted = <<[code |-> PAYLOAD_TOO_LARGE, text |-> "Content length too big", ok |-> TRUE]>>
    /\ ~handled

\* C5: a request whose method is not one of the nine known methods is
\* rejected with BadRequest: the client receives a 400 response.
C5_UnknownMethodGets400 ==
    (/\ pc \in {"exit", "left"}
     /\ wireHead.headerFail = "none"
     /\ wireHead.malformed = "none"
     /\ wireHead.method \notin methods
     /\ leave # "OSError")
        => (Len(emitted) = 1 /\ emitted[1].code = BAD_REQUEST /\ emitted[1].ok)

\* the status code of the handler's error is the one emitted, and any other
\* exception of the handler is logged and answered with 500
C6_ErrorStatus ==
    /\ (handlerErr.exc = "HttpError" /\ emitted # <<>>) =>
           (Len(emitted) = 1 /\ emitted[1].code = handlerErr.code)
    /\ (handlerErr.exc = "Exception" /\ emitted # <<>>) =>
           (Len(emitted) = 1 /\ emitted[1].code = INTERNAL_SERVER_ERROR)
    /\ handlerErr.exc = "Exception" => logged > 0
    /\ (handlerErr.exc # "none" /\ pc \in {"exit", "left"}) => Len(emitted) = 1

\* C6 as claimed: the handler's HttpError is answered with its status code,
\* any other exception is logged and answered with 500, and in both cases, as
\* on normal return, the body resources of the request are released before
\* anything else happens on the connection (so before anything is emitted).
C6_ReleasedBeforeAnythingElse ==
    /\ C6_ErrorStatus
    /\ (handled /\ emitted # <<>> /\ emitted[1].ok) => Released(request)

\* C6 as amended: same status codes; after a handler error the error response
\* is emitted first and the request is released right after it; after a
\* normal return the request is released before the response is emitted; in
\* every case it is released before handle_client reads again or is left.
C6_ReleasedBeforeNextStep ==
    /\ C6_ErrorStatus
    /\ (pc = "handle_finally" /\ handlerErr.exc # "none") =>
           (Len(emitted) = 1 /\ (BodyTruthy(request.body) => ~Released(request)))
    /\ (pc = "handle_finally" /\ handlerErr.exc = "none") => emitted = <<>>
    /\ (handled /\ pc \in {"emit", "emit_finally", "read", "exit", "left"}) =>
           Released(request)

\* the handler raised HttpError(404) for a request with an in-memory body:
\* the 404 was emitted and the body dropped when handle_client is about to leave
C6_Witness ==
    /\ pc = "exit"
    /\ handlerErr = HttpError(404, "no such route")
    /\ emitted = <<[code |-> 404, text |-> "no such route", ok |-> TRUE]>>
    /\ request.body.kind = "small"
    /\ ~request.body.hasContent

\* C7: the body temp file of request N has been released (deleted) before
\* the first byte of request N+1 is read, on every path through the loop.
C7_ReleasedBeforeNextRead ==
    pc = "read" => (DOMAIN disk = {} /\ Released(request))

\* the loop is back at get_request after a request whose body went to disk
C7_Witness ==
    /\ pc = "read"
    /\ reqNo > 0
    /\ request.body.kind = "big"
    /\ request.body.size > MaxBodyRam
    /\ request.body.path = NoPath
    /\ DOMAIN disk = {}

\* C8: the Body owns its storage once the factory produced it: the clear()
\* that follows get_file leaves the temp file of a disk-backed Body in place,
\* so the Body of the request is still readable when the handler runs.
C8_BodyReadableInHandler ==
    (pc = "handle" /\ request.body.kind = "big") =>
        /\ request.body.path \in DOMAIN disk
        /\ disk[request.body.path] = BodyBytes(request.body.size)

\* C12: if reading a request fails after the body has spilled to a temp
\* file, that temp file is unlinked: no temp file outlives a failed read.
C12_NoFileAfterFailedRead == readErr.exc # "none" => DOMAIN disk = {}

---------------------------------------------------------------------------
(* Claims about the TempFileFactory *)

\* C9: after any sequence of append_to_file calls followed by get_file, the
\* size of the returned Body is the number of bytes appended; a memory-backed
\* Body's data is the concatenation, in order, of the appended byte strings
\* (and a disk-backed Body's file holds that concatenation).
C9_SizeAndData ==
    fop.op = "get_file" =>
        /\ BodySize(fbody) = Len(appended)
        /\ fbody.kind = "small" => fbody.hasContent /\ fbody.content = appended
        /\ fbody.kind = "big" => fbody.path \in DOMAIN disk /\ disk[fbody.path] = appended

\* a disk-backed Body built from more than one append has been returned
C9_Witness ==
    /\ fop.op = "get_file"
    /\ fbody.kind = "big"
    /\ Len(appended) > MaxPiece
    /\ BodySize(fbody) = Len(appended)

\* exactly one backing storage holds the bytes appended so far
C10_OneStorage ==
    /\ StreamTruthy(fac) =>
           /\ fac.content = <<>>
           /\ DOMAIN disk = {fac.path}
           /\ disk[fac.path] = appended
    /\ ~StreamTruthy(fac) =>
           /\ fac.content = appended
           /\ Len(appended) <= fac.max_mem_size
           /\ fac.path = NoPath
           /\ DOMAIN disk = {}

\* the spill happens on the first append that exceeds max_mem_size, and from
\* then on (until clear) the same file stays the storage
C10_Step ==
    /\ (~StreamTruthy(fac) /\ fop'.op = "append") =>
           (StreamTruthy(fac') <=> Len(appended') > fac.max_mem_size)
    /\ (~StreamTruthy(fac) /\ StreamTruthy(fac')) =>
           /\ disk'[fac'.path] = appended'
           /\ fac'.content = <<>>
    /\ (StreamTruthy(fac) /\ fop'.op # "clear") =>
           /\ StreamTruthy(fac')
           /\ fac'.path = fac.path
           /\ fac'.content = <<>>
           /\ DOMAIN disk' = DOMAIN disk

\* C10: at every point of a factory's life exactly one backing storage holds
\* the body: the memory buffer while the accumulated length is at most
\* max_mem_size; the first append that would exceed it writes the buffered
\* bytes followed by the new bytes to a single temp file and empties the
\* buffer; every later append goes only to that file.
C10_SingleStorage == []C10_OneStorage /\ [][C10_Step]_vars

\* a second append has gone to the file created by an earlier spill
C10_Witness ==
    /\ fop.op = "append"
    /\ fac.stream = "open"
    /\ fac.content = <<>>
    /\ Len(appended) > MaxPiece
    /\ disk[fac.path] = appended

---------------------------------------------------------------------------
(* Claims about the TempFile handle *)

\* C11: for a disk-backed Body any sequence of delete(), move_to() and
\* dropping the handle removes the temp file exactly once, and a destruction
\* step after an earlier delete or move_to has no effect and raises no error.
C11_DestructionIdempotent ==
    (tf.kind = "big" /\ tfop.op \in {"delete", "move_to", "drop"}) =>
        /\ tfop.exc = "none"
        /\ tfop.ignored = "none"
        /\ TempPath \notin DOMAIN tfdisk
        /\ unlinks <= 1

---------------------------------------------------------------------------
(* Claims about the request reader *)

RECURSIVE SumSeq(_)
\* the sum of a sequence of numbers
SumSeq(q) == IF q = <<>> THEN 0 ELSE Head(q) + SumSeq(Tail(q))

\* the wire request is well formed up to its body and the socket delivers
\* every byte of it
Delivered(w) ==
    /\ w.headerFail = "none"
    /\ w.malformed = "none"
    /\ w.method \in methods
    /\ w.failKind = "none"

\* C13: the body bytes read for one request never exceed max_content_length,
\* also for a chunked body: a chunk whose length drives the remaining size
\* budget to or below zero raises PayloadTooLarge (413) instead of being read.
C13_ChunkedWithinBudget ==
    (rres.done /\ rwire.transfer = "chunked") =>
        /\ BodySize(rres.req.body) <= MaxContentLength
        /\ \A path \in DOMAIN rres.disk : Len(rres.disk[path]) <= MaxContentLength
        /\ (Delivered(rwire) /\ ~rwire.crlf /\ SumSeq(rwire.chunks) >= MaxContentLength) =>
               rres.err = HttpError(PAYLOAD_TOO_LARGE, "Request too big")

\* C14: a request whose Content-Length equals max_content_length is read and
\* yields a Body of that size; with max_content_length + 1 it fails with
\* PayloadTooLarge (413).
C14_ContentLengthBoundary ==
    (rres.done /\ Delivered(rwire) /\ rwire.transfer # "chunked" /\ rwire.clen.kind = "int") =>
        /\ rwire.clen.n = MaxContentLength =>
               /\ rres.err = NoError
               /\ rres.req.body.kind # "none"
               /\ BodySize(rres.req.body) = MaxContentLength
        /\ rwire.clen.n = MaxContentLength + 1 =>
               /\ rres.err.exc = "HttpError"
               /\ rres.err.code = PAYLOAD_TOO_LARGE

\* a body of exactly max_content_length bytes was read from a socket that
\* delivers it byte by byte
C14_Witness ==
    /\ rres.done
    /\ Delivered(rwire)
    /\ rwire.clen = [kind |-> "int", n |-> MaxContentLength]
    /\ rwire.short
    /\ rres.err = NoError
    /\ BodySize(rres.req.body) = MaxContentLength

---------------------------------------------------------------------------
(* Claims about the byte buffer *)

\* whenever as many bytes were popped as pushed, both cursors are 0
C17_CursorsReset == pushed = popped => (buf.bottom = 0 /\ buf.top = 0)

\* peek(n) immediately followed by pop(n) returns identical bytes
C17_PeekThenPop ==
    (bufOp.op = "peek" /\ bufOp'.op = "pop" /\ bufOp'.n = bufOp.n) => bufOp'.res = bufOp.res

\* C17: for any interleaving of push, pop and peek (the pops include
\* pop_line), peek(n) immediately followed by pop(n) returns identical bytes,
\* and whenever the bytes popped equal the bytes pushed both cursors are 0.
C17_BufferCursors == []C17_CursorsReset /\ [][C17_PeekThenPop]_vars


---------------------------------------------------------------------------
\* C15: a block whose longest header line is exactly max_headers_size bytes
\* on the wire (its CR LF counted) is read without error and comes back as
\* the lines the peer wrote; a block whose first line is one byte longer is
\* refused with the ValueError of read_line.
C15_HeaderLineLimit ==
    sockOp.op = "get_headers" =>
        /\ ( /\ \A i \in 1..Len(sockOp.peer) : Len(sockOp.peer[i]) + 2 <= MaxHeadersSize
             /\ \E i \in 1..Len(sockOp.peer) : Len(sockOp.peer[i]) + 2 = MaxHeadersSize )
           => (sockOp.exc = "none" /\ sockOp.lines = sockOp.peer)
        /\ Len(sockOp.peer[1]) + 2 > MaxHeadersSize => sockOp.exc = "ValueError"

\* the second half of C15 alone: one byte more than the limit is refused
C15_OneMoreRejected ==
    (sockOp.op = "get_headers" /\ Len(sockOp.peer[1]) + 2 > MaxHeadersSize)
        => sockOp.exc = "ValueError"

---------------------------------------------------------------------------
\* C16: what _send_chunked wrote for a body, and the wire bytes of
\* "hello world" in chunks of 5 and 6, are read by __read_body_chunked
\* without error and give back the bytes of the body.
C16_ChunkedRoundTrip ==
    cresult.done => (cresult.exc = "none" /\ cresult.body = cbody.bytes)

\* the empty body is the one that does come back
C16_EmptyBodyRoundTrip ==
    (cresult.done /\ cbody.bytes = <<>> /\ cresult.seg = max_read_unit)
        => (cresult.exc = "none" /\ cresult.body = <<>>)

---------------------------------------------------------------------------
---------------------------------------------------------------------------
\* the header block that went out has a line for this key
HeadHas(key) == \E i \in 1..Len(sent.head) : sent.head[i] = [kind |-> "header", key |-> key]

\* the header block announces a chunked body
AnnouncesChunked ==
    /\ HeadHas("transfer-encoding")
    /\ hresp.te # <<>>
    /\ hresp.te[Len(hresp.te)] = "chunked"
    /\ ~HeadHas("content-length")

\* C19: a response with a body, built as for C18 and given a chunk size by
\* its handler, goes out framed as chunks exactly when its header block
\* announces chunked, goes out as it is under a Content-Length otherwise,
\* and never has a Content-Length line and chunked framing together.
C19_FramingMatchesHeaders ==
    ( /\ sent.done
      /\ sent.head # <<>>
      /\ respOp.plain
      /\ hresp.body.set
      /\ hresp.chunk_size # 0 )
    => /\ sent.exc = "none"
       /\ (sent.framing = "chunked") <=> AnnouncesChunked
       /\ ~AnnouncesChunked => (sent.framing = "sized" /\ HeadHas("content-length"))
       /\ ~(HeadHas("content-length") /\ sent.framing = "chunked")

\* the same without a chunk size given by the handler: what the class
\* itself provides
C19_FramingAsBuilt ==
    ( /\ sent.done
      /\ sent.head # <<>>
      /\ respOp.plain
      /\ hresp.body.set
      /\ hresp.chunk_size = 0 )
    => /\ sent.exc = "none"
       /\ (sent.framing = "chunked") <=> AnnouncesChunked

---------------------------------------------------------------------------
\* where a line of the header block belongs: 0 the status line, 1 a header
\* of the first set, 2 any other header, 3 a cookie, 4 a header of the
\* last set
InTuple(keys, key) == \E i \in 1..Len(keys) : keys[i] = key

Rank(line) ==
    CASE line.kind = "status" -> 0
      [] line.kind = "cookie" -> 3
      [] line.kind = "header" /\ InTuple(hresp.first, line.key) -> 1
      [] line.kind = "header" /\ InTuple(hresp.last, line.key) -> 4
      [] OTHER -> 2

\* C20: the block get_header_string returns starts with the status line,
\* has every header of the response and one Set-Cookie line per cookie,
\* each line followed by CR LF, in the order status line, first set,
\* other headers, cookies, last set, and ends with CR LF CR LF.
C20_HeaderOrder ==
    (respOp.op = "get_header_string" /\ respOp.exc = "none")
    => /\ Len(respOp.wire) >= 3
       /\ Len(respOp.wire) % 2 = 1
       /\ respOp.wire[1] = StatusLine
       /\ \A i \in 1..Len(respOp.wire) :
             (i % 2 = 0 \/ i = Len(respOp.wire)) <=> respOp.wire[i] = CRLF
       /\ \A i, j \in 1..(Len(respOp.wire) - 2) :
             (i < j /\ i % 2 = 1 /\ j % 2 = 1) => Rank(respOp.wire[i]) <= Rank(respOp.wire[j])
       /\ \A i \in 2..(Len(respOp.wire) - 2) : respOp.wire[i] # StatusLine
       /\ \A k \in 1..Len(hresp.order) :
             \E i \in 1..Len(respOp.wire) :
                 respOp.wire[i] = [kind |-> "header", key |-> hresp.order[k]]
       /\ \A k \in 1..Len(hresp.cookies) :
             Cardinality({i \in 1..Len(respOp.wire) :
                 respOp.wire[i] = [kind |-> "cookie", key |-> hresp.cookies[k]]}) = 1

\* a block with a first header, another header, a cookie and a last header
C20_Witness ==
    /\ respOp.op = "get_header_string"
    /\ respOp.exc = "none"
    /\ HasKey(hresp, "server")
    /\ HasKey(hresp, "connection")
    /\ hresp.cookies # <<>>
    /\ hresp.first = first_headers
    /\ HasKey(hresp, "content-length")

---------------------------------------------------------------------------
\* C22: when handle_request returns for a request whose Session cookie is a
\* token the store knows and whose session is still non-empty afterwards
\* (its record is still in the store), no token was minted: the response has
\* no Session cookie and the store is what it was.
C22_Step ==
    ( /\ pc = "handle" /\ pc' = "handle_finally"
      /\ request.cookie # NoToken
      /\ B64Hash(request.cookie) \in sessions
      /\ B64Hash(request.cookie) \in sessions' )
    => (response'.cookie = NoToken /\ sessions' = sessions)

C22_KnownTokenKept == [][C22_Step]_vars

\* the other branches of C22: an empty session takes the token's record out
\* of the store and sets no cookie; a request without cookie and with a
\* non-empty session gets a cookie whose record is added
C22_OtherBranches ==
    [][ (pc = "handle" /\ pc' = "handle_finally")
        => /\ (request.cookie # NoToken /\ B64Hash(request.cookie) \notin sessions')
                 => response'.cookie = NoToken \/ B64Hash(request.cookie) \notin sessions
           /\ response'.cookie # NoToken
                 => (B64Hash(response'.cookie) \in sessions' \ sessions) ]_vars

---------------------------------------------------------------------------
\* C26: when get_request raises an OSError, the connection loop logs that
\* error (one more log_error call) and is left without any response emitted.
C26_OSErrorLogged ==
    [][ (pc = "read" /\ readErr'.exc = "OSError")
        => (logged' = logged + 1 /\ emitted' = <<>> /\ pc' = "exit") ]_vars

\* the part of C26 the handler keeps: after an OSError of the read the loop is
\* left and nothing is emitted for that request
C26_NoResponse ==
    [][ (pc = "read" /\ readErr'.exc = "OSError")
        => (emitted' = <<>> /\ pc' = "exit") ]_vars

---------------------------------------------------------------------------
(* FormReader and parse_form over one multipart stream *)

notFormVars == <<factoryVars, connVars, bodyVars, readerVars, bufVars, sockVars, chunkVars,
                 respVars, relVars, hreq, sess, shared, fifo, tmr, pipe>>

FormInit ==
    /\ \E fields \in FormInputs, n \in 1..MaxReadSize : form = FormState(fields, n)
    /\ formOp = NoFormOp
    /\ pform = NoParse
    /\ disk = EmptyDisk
    /\ nextPath = 1
    /\ FactoryIdle
    /\ ConnInit
    /\ CoreIdle /\ RelIdle /\ HeadIdle /\ SessIdle /\ ShIdle /\ FifoIdle /\ TimerIdle /\ PipeIdle

\* the reader state after next_field gave nf
AfterNextField(nf) ==
    [form EXCEPT !.fr = nf.fr,
                 !.cur = IF nf.kind = "metadata" THEN nf.meta.name ELSE <<>>,
                 !.got = <<>>,
                 !.eof = FALSE,
                 !.ended = nf.kind # "metadata"]

\* reader.next_field(), also while the current field is not read to its end
FormNextField ==
    /\ ~pform.done
    /\ ~form.ended
    /\ form' = AfterNextField(NextField(form.fr, form.data))
    /\ formOp' = [op |-> "next_field", kind |-> NextField(form.fr, form.data).kind]
    /\ UNCHANGED <<pform, notFormVars>>

\* the reader state after read(n) gave r
AfterRead(r) ==
    [form EXCEPT !.fr = r.fr, !.got = form.got \o r.res, !.eof = (r.res = <<>>)]

\* reader.read(n) on the field whose metadata was returned, up to the first
\* empty result
FormReadField ==
    /\ ~pform.done
    /\ form.cur # <<>>
    /\ ~form.eof
    /\ form' = AfterRead(FormRead(form.fr, form.data, form.n))
    /\ formOp' = [op |-> "read", kind |-> "bytes"]
    /\ UNCHANGED <<pform, notFormVars>>

\* what the caller of parse_form sees of its result r
ParseResult(r, max_entries) ==
    [done |-> TRUE, max_entries |-> max_entries, exc |-> r.exc, code |-> r.code,
     why |-> r.why, files |-> r.files, fields |-> r.fields]

\* parse_form(boundary, opener, max_entries = m) on a fresh stream
FormParse ==
    /\ ~pform.done
    /\ formOp.op = "init"
    /\ \E m \in 1..MaxEntries : pform' = ParseResult(ParseForm(form.data, 65536, m), m)
    /\ UNCHANGED <<form, formOp, notFormVars>>

FormNext == FormNextField \/ FormReadField \/ FormParse

SpecForm == FormInit /\ [][FormNext]_vars

\* the body the stream carries for the field called name
BodyOf(fields, name) ==
    fields[CHOOSE i \in 1..Len(fields) : fields[i].name = name].body

\* C23: once next_field returned a metadata, the results of read(n) up to
\* the first empty one, concatenated, are the body of that field, for every
\* field of the stream and every n >= 1.
C23_FieldBodyExact ==
    (form.cur # <<>> /\ form.eof)
        => /\ \E i \in 1..Len(form.fields) : form.fields[i].name = form.cur
           /\ form.got = BodyOf(form.fields, form.cur)

\* the first field of every stream is read exactly, whatever n
C23_FirstFieldExact ==
    (form.cur = <<97>> /\ form.eof) => form.got = BodyOf(form.fields, form.cur)

\* C24: a form of exactly max_entries fields is accepted by parse_form and
\* its files and fields are returned; one of max_entries + 1 fields raises
\* PayloadTooLarge.
C24_ExactlyMaxEntries ==
    pform.done =>
        /\ Len(form.fields) = pform.max_entries
              => (pform.exc = "none"
                  /\ Len(pform.files) + Len(pform.fields) = Len(form.fields))
        /\ Len(form.fields) = pform.max_entries + 1
              => (pform.exc = "HttpError" /\ pform.code = PAYLOAD_TOO_LARGE)

\* what parse_form does: fewer than max_entries fields are accepted and
\* returned with their values, max_entries fields or more raise
\* PayloadTooLarge
C24_FewerThanMaxEntries ==
    pform.done =>
        /\ Len(form.fields) < pform.max_entries
              => /\ pform.exc = "none"
                 /\ Len(pform.files) + Len(pform.fields) = Len(form.fields)
                 /\ \A i \in 1..Len(pform.fields) :
                        pform.fields[i].value = BodyOf(form.fields, pform.fields[i].name)
                 /\ \A i \in 1..Len(pform.files) :
                        /\ pform.files[i].size = Len(BodyOf(form.fields, pform.files[i].name))
                        /\ SubSeq(form.data, pform.files[i].offset + 1,
                                  pform.files[i].offset + pform.files[i].size)
                               = BodyOf(form.fields, pform.files[i].name)
        /\ Len(form.fields) >= pform.max_entries
              => (pform.exc = "HttpError" /\ pform.code = PAYLOAD_TOO_LARGE
                  /\ pform.why = "entries")

---------------------------------------------------------------------------
(* _RelativeReadStream driven on its own *)

\* length of the stream the view is opened on
MaxStream == 4
\* largest |offset| given to seek, and largest n given to read
MaxSeek == 3

\* the bytes of the inner stream, all different
RelData == [i \in 1..MaxStream |-> i]

notRelVars == <<factoryVars, connVars, bodyVars, readerVars, bufVars, sockVars, chunkVars,
                respVars, formVars, hreq, sess, shared, fifo, tmr, pipe>>

RelInit ==
    /\ \E offset \in 0..MaxStream :
         \E length \in 0..(MaxStream - offset) :
            rel = RelativeReadStream(RelData, offset, length)
    /\ relOp = NoRelOp
    /\ disk = EmptyDisk
    /\ nextPath = 1
    /\ FactoryIdle
    /\ ConnInit
    /\ CoreIdle /\ FormIdle /\ HeadIdle /\ SessIdle /\ ShIdle /\ FifoIdle /\ TimerIdle /\ PipeIdle

\* stream.seek(offset, whence), whence 3 being none of the three
RelDoSeek ==
    /\ \E offset \in (0 - MaxSeek)..MaxSeek, whence \in 0..3 :
        /\ rel' = RelSeek(rel, offset, whence).r
        /\ relOp' = [op |-> "seek", exc |-> RelSeek(rel, offset, whence).exc, res |-> <<>>,
                     at |-> Initialize(rel).pos]
    /\ UNCHANGED notRelVars

\* stream.read(n), n = -1 being the default
RelDoRead ==
    /\ \E n \in (0 - 1)..MaxSeek :
        /\ rel' = RelRead(rel, n).r
        /\ relOp' = [op |-> "read", exc |-> "none", res |-> RelRead(rel, n).res,
                     at |-> Initialize(rel).pos]
    /\ UNCHANGED notRelVars

\* stream.tell()
RelDoTell ==
    /\ rel' = Initialize(rel)
    /\ relOp' = [op |-> "tell", exc |-> "none", res |-> <<RelTell(rel)>>,
                 at |-> Initialize(rel).pos]
    /\ UNCHANGED notRelVars

RelNext == RelDoSeek \/ RelDoRead \/ RelDoTell

SpecRelative == RelInit /\ [][RelNext]_vars

\* C25: every read and seek, with any offset, leaves the inner position
\* within [offset, offset + length], a read returns only bytes of that range,
\* and the inner stream is moved to offset by the first operation and not
\* before.
C25_StaysInRange ==
    /\ rel.has_init => (rel.offset <= rel.pos /\ rel.pos <= rel.offset + rel.length)
    /\ relOp.op = "read"
          => /\ rel.offset <= relOp.at
             /\ relOp.at + Len(relOp.res) <= rel.offset + rel.length
             /\ relOp.res = SubSeq(rel.data, relOp.at + 1, relOp.at + Len(relOp.res))
    /\ rel.has_init <=> relOp.op # "init"
    /\ ~rel.has_init => rel.pos = 0

\* what the view does keep: the end of the range is never passed, by the
\* position or by a read, and the inner stream is touched by the first
\* operation only
C25_EndNeverPassed ==
    /\ rel.pos <= rel.offset + rel.length
    /\ relOp.op = "read" => relOp.at + Len(relOp.res) <= rel.offset + rel.length
    /\ rel.has_init <=> relOp.op # "init"
    /\ ~rel.has_init => rel.pos = 0

---------------------------------------------------------------------------
(* get_request over the header lines of one request *)

notHeadVars == <<factoryVars, connVars, bodyVars, readerVars, bufVars, sockVars, chunkVars,
                 respVars, formVars, relVars, sess, shared, fifo, tmr, pipe>>

\* the header lines tried: each title in its canonical and in another spelling
HeaderLineSet ==
    {<<"Content-Length", "2">>, <<"Content-Length", "0">>, <<"content-length", "2">>,
     <<"Transfer-Encoding", "chunked">>, <<"transfer-encoding", "chunked">>,
     <<"Transfer-Encoding", "gzip">>,
     <<"Cookie", "Session=t">>, <<"cookie", "Session=t">>,
     <<"Trailer", "X">>, <<"TRAILER", "X">>}

HeadInit ==
    /\ \E k \in 0..MaxHeaderLines :
         \E lines \in [1..k -> HeaderLineSet] :
            hreq = [lines |-> lines, done |-> FALSE, res |-> NoHeadersRead]
    /\ disk = EmptyDisk
    /\ nextPath = 1
    /\ FactoryIdle
    /\ ConnInit
    /\ CoreIdle /\ FormIdle /\ RelIdle /\ SessIdle /\ ShIdle /\ FifoIdle /\ TimerIdle /\ PipeIdle

\* ssw.get_request() on those lines
HeadGetRequest ==
    /\ ~hreq.done
    /\ hreq' = [hreq EXCEPT !.done = TRUE, !.res = HeadersRead(hreq.lines)]
    /\ UNCHANGED notHeadVars

HeadNext == HeadGetRequest

SpecHeaders == HeadInit /\ [][HeadNext]_vars

\* the canonical spelling of a header title
Canonical(title) ==
    CASE ToLower(title) = "content-length" -> "Content-Length"
      [] ToLower(title) = "transfer-encoding" -> "Transfer-Encoding"
      [] ToLower(title) = "cookie" -> "Cookie"
      [] ToLower(title) = "trailer" -> "Trailer"
      [] OTHER -> title

CanonicalLines(lines) == [i \in 1..Len(lines) |-> <<Canonical(lines[i][1]), lines[i][2]>>]

\* C28: header keys are matched without regard to letter case: a request
\* whose content-length, transfer-encoding, trailer or cookie header is
\* spelled in another letter case is handled exactly as the same request
\* with the canonical spelling (same way of reading the body, same cookies,
\* same stored headers).
C28_SpellingIgnored ==
    hreq.done => hreq.res = HeadersRead(CanonicalLines(hreq.lines))

\* the stored request headers are keyed by lower-case titles
C28_StoredLowerCase ==
    hreq.done => \A kv \in hreq.res.headers : kv[1] = ToLower(kv[1])

\* the last value a canonical title was given in lines, or "absent"
LastOf(lines, title) ==
    IF \E i \in 1..Len(lines) : lines[i][1] = title
    THEN lines[CHOOSE i \in 1..Len(lines) :
                  /\ lines[i][1] = title
                  /\ \A j \in (i + 1)..Len(lines) : lines[j][1] # title][2]
    ELSE "absent"

\* C29: a request that carries a Content-Length header has its body read as
\* exactly that many bytes, and the body is read chunked only when there is
\* no Content-Length and Transfer-Encoding is chunked; with both headers the
\* Content-Length decides.
C29_ContentLengthDecides ==
    hreq.done =>
        /\ LastOf(hreq.lines, "Content-Length") = "2"
              => (hreq.res.body.mode = "sized" /\ hreq.res.body.length = 2)
        /\ LastOf(hreq.lines, "Content-Length") = "0" => hreq.res.body.mode = "none"
        /\ hreq.res.body.mode = "chunked"
              => /\ LastOf(hreq.lines, "Content-Length") = "absent"
                 /\ LastOf(hreq.lines, "Transfer-Encoding") = "chunked"

\* what the reader does: Transfer-Encoding: chunked decides, and the
\* Content-Length is used when the transfer encoding is absent or another
C29_ChunkedDecides ==
    hreq.done =>
        /\ LastOf(hreq.lines, "Transfer-Encoding") = "chunked" <=> hreq.res.body.mode = "chunked"
        /\ (LastOf(hreq.lines, "Transfer-Encoding") # "chunked"
            /\ LastOf(hreq.lines, "Content-Length") = "2")
              => (hreq.res.body.mode = "sized" /\ hreq.res.body.length = 2)

---------------------------------------------------------------------------
\* the bytes of the peer that the header reading has taken off the
\* connection and not left in the buffer
HeaderBytesTaken ==
    Len(WireOfLines(sockOp.peer)) - Len(bsock.stream) - BufLen(bsock.buffer)

\* C30: the header budget is cumulative: the bytes that
\* _get_headers_strings consumes for the header lines of one request are at
\* most max_headers_size in total.
C30_CumulativeBudget ==
    (sockOp.op = "get_headers" /\ sockOp.exc = "none")
        => HeaderBytesTaken <= MaxHeadersSize

\* what the reader does bound: each line it returns, taken alone
C30_EachLineBounded ==
    (sockOp.op = "get_headers" /\ sockOp.exc = "none")
        => \A i \in 1..Len(sockOp.lines) : Len(sockOp.lines[i]) + 2 <= MaxHeadersSize

-----------------------------------------------------------------------------
(* The SessionManager driven on its own against a clock (SpecSession) *)

notSessVars == <<factoryVars, connVars, bodyVars, readerVars, bufVars, sockVars, chunkVars,
                 respVars, formVars, relVars, hreq, shared, fifo, tmr, pipe>>

SessInit ==
    /\ SessIdle
    /\ disk = EmptyDisk
    /\ nextPath = 1
    /\ FactoryIdle
    /\ ConnInit
    /\ CoreIdle /\ FormIdle /\ RelIdle /\ HeadIdle /\ ShIdle /\ FifoIdle /\ TimerIdle /\ PipeIdle

\* add_session(session_data): a fresh token, filed under its hash
SessAdd ==
    /\ sess.next <= MaxTokens
    /\ \E d \in SessionData :
         sess' = [sess EXCEPT
                    !.store = SetSession(sess.store, Token(sess.next), d, sess.now),
                    !.next = sess.next + 1,
                    !.since[sess.next] = sess.now,
                    !.data[sess.next] = d,
                    !.op = NoSessOp]
    /\ UNCHANGED notSessVars

\* set_session(session_key, session_data) with a token handed out before
SessSet ==
    /\ \E n \in 1..(sess.next - 1), d \in SessionData :
         sess' = [sess EXCEPT
                    !.store = SetSession(sess.store, Token(n), d, sess.now),
                    !.since[n] = sess.now,
                    !.data[n] = d,
                    !.op = NoSessOp]
    /\ UNCHANGED notSessVars

\* get_session(session_key): a hit counts as a touch
SessGet ==
    /\ \E n \in 1..MaxTokens :
         LET g == GetSession(sess.store, Token(n), sess.now)
         IN  sess' = [sess EXCEPT
                        !.store = g.e,
                        !.since[n] = IF g.res # None THEN sess.now ELSE sess.since[n],
                        !.op = [op |-> "get_session", key |-> n, res |-> g.res,
                                since |-> sess.since[n], data |-> sess.data[n]]]
    /\ UNCHANGED notSessVars

\* delete_session(session_key)
SessDelete ==
    /\ \E n \in 1..(sess.next - 1) :
         sess' = [sess EXCEPT
                    !.store = DeleteSession(sess.store, Token(n)),
                    !.since[n] = -1,
                    !.data[n] = None,
                    !.op = NoSessOp]
    /\ UNCHANGED notSessVars

\* the clock moves on
SessTick ==
    /\ sess.now < MaxClock
    /\ sess' = [sess EXCEPT !.now = sess.now + 1, !.op = NoSessOp]
    /\ UNCHANGED notSessVars

SessNext == SessAdd \/ SessSet \/ SessGet \/ SessDelete \/ SessTick

SpecSession == SessInit /\ [][SessNext]_vars

\* C21: get_session with the token of a session that was added (and not
\* deleted) returns the session object last stored under it when less than
\* the TTL has passed since the last insertion or touch of the token, and
\* None when the TTL has passed.
C21_SessionLivesForTTL ==
    (sess.op.op = "get_session" /\ sess.op.since >= 0)
        => IF sess.now < sess.op.since + SessionTTL
           THEN sess.op.res = sess.op.data /\ sess.op.res # None
           ELSE sess.op.res = None

\* a session is returned after the clock has moved on since its last
\* insertion or touch, and that call has touched it: its entry now expires
\* one TTL from this reading of the clock
C21_TouchedSessionKept ==
    /\ sess.op.op = "get_session"
    /\ sess.op.res \in SessionData
    /\ sess.op.since < sess.now
    /\ sess.store.dict[B64Hash(Token(sess.op.key))][2] = sess.now + SessionTTL

\* a session that was added is gone once the TTL has passed
C21_ExpiredSessionGone ==
    /\ sess.op.op = "get_session"
    /\ sess.op.since >= 0
    /\ sess.now >= sess.op.since + SessionTTL
    /\ sess.op.res = None

-----------------------------------------------------------------------------
(* Two workers on one ExpiringDict (SpecShared): worker 1 iterates a view, *)
(* worker 2 stores and deletes.  lock is the worker holding the RLock, 0   *)
(* when it is free.                                                        *)

notSharedVars == <<factoryVars, connVars, bodyVars, readerVars, bufVars, sockVars, chunkVars,
                   respVars, formVars, relVars, hreq, sess, fifo, tmr, pipe>>

SharedInit ==
    /\ ShIdle
    /\ disk = EmptyDisk
    /\ nextPath = 1
    /\ FactoryIdle
    /\ ConnInit
    /\ CoreIdle /\ FormIdle /\ RelIdle /\ HeadIdle /\ SessIdle /\ FifoIdle /\ TimerIdle /\ PipeIdle

\* worker 2, __setitem__: takes the lock and stores the entry ...
ShSetItem ==
    /\ shared.lock = 0
    /\ shared.pc = "idle"
    /\ \E key \in SharedKeys, value \in 1..MaxValue :
         /\ SlotOf(shared.slots, key) = {} => Len(shared.slots) < MaxSlots
         /\ shared' = [shared EXCEPT
                         !.slots = SlotsSet(shared.slots, key, value),
                         !.lock = 2,
                         !.pc = "expire",
                         !.op = [op |-> "setitem", res |-> StopIteration, lock |-> 2]]
    /\ UNCHANGED notSharedVars

\* ... then runs expire(), which finds nothing expired, and frees the lock
ShExpire ==
    /\ shared.pc = "expire"
    /\ shared' = [shared EXCEPT !.lock = 0, !.pc = "idle",
                                !.op = [op |-> "expire", res |-> StopIteration, lock |-> 2]]
    /\ UNCHANGED notSharedVars

\* worker 2, __delitem__ of a key that is there, under the lock
ShDelItem ==
    /\ shared.lock = 0
    /\ shared.pc = "idle"
    /\ \E key \in SharedKeys :
         /\ SlotOf(shared.slots, key) # {}
         /\ shared' = [shared EXCEPT
                         !.slots = SlotsDel(shared.slots, key),
                         !.op = [op |-> "delitem", res |-> StopIteration, lock |-> 2]]
    /\ UNCHANGED notSharedVars

\* worker 1, keys() / values() / items(): the view is made under the lock,
\* which is free again when the call returns
ShView ==
    /\ shared.lock = 0
    /\ shared.it.state \in {"none", "done", "error"}
    /\ shared' = [shared EXCEPT !.it = [NoIter EXCEPT !.state = "view"],
                                !.op = [op |-> "view", res |-> StopIteration, lock |-> 1]]
    /\ UNCHANGED notSharedVars

\* worker 1, iter(view): no lock is taken
ShIter ==
    /\ shared.it.state = "view"
    /\ shared' = [shared EXCEPT !.it = IterOf(shared.slots),
                                !.op = [op |-> "iter", res |-> StopIteration,
                                        lock |-> shared.lock]]
    /\ UNCHANGED notSharedVars

\* worker 1, next(iterator): no lock is taken
ShNext ==
    /\ shared.it.state \in {"iter", "error"}
    /\ shared' = [shared EXCEPT !.it = IterNext(shared.it, shared.slots).it,
                                !.op = [op |-> "next",
                                        res |-> IterNext(shared.it, shared.slots).res,
                                        lock |-> shared.lock]]
    /\ UNCHANGED notSharedVars

SharedNext == ShSetItem \/ ShExpire \/ ShDelItem \/ ShView \/ ShIter \/ ShNext

SpecShared == SharedInit /\ [][SharedNext]_vars

\* the entries of the store as they were when the iteration began
SnapEntries ==
    {<<shared.it.snap[i].key, shared.it.snap[i].value>> : i \in LiveSlots(shared.it.snap)}

\* C27: a worker iterating a view of the shared store never observes a
\* mutation made by another worker meanwhile: every step of the iteration
\* runs with the store's lock held by the iterating worker, and gives an
\* entry the store had when the iteration began or ends the iteration.
C27_IterationUnderLock ==
    shared.op.op = "next"
        => /\ shared.op.lock = 1
           /\ shared.op.res \in SnapEntries \cup {StopIteration}

\* what does hold: the store is changed and the view is made only by the
\* worker holding the lock; worker 2 holds it from the store of __setitem__
\* to the end of expire()
C27_MutationsUnderLock ==
    /\ shared.op.op \in {"setitem", "expire", "delitem"} => shared.op.lock = 2
    /\ shared.op.op = "view" => shared.op.lock = 1
    /\ shared.pc = "expire" <=> shared.lock = 2

\* a step of the iteration gives an entry that another worker stored after
\* the iteration began
C27_MutationObserved ==
    /\ shared.op.op = "next"
    /\ shared.op.res \notin SnapEntries \cup {StopIteration, RuntimeError}

\* a step of the iteration runs while the other worker holds the lock
C27_StepWhileLocked == shared.op.op = "next" /\ shared.op.lock = 2

-----------------------------------------------------------------------------
(* A FifoBuffer and the bytes that went through it (SpecFifo) *)

notFifoVars == <<factoryVars, connVars, bodyVars, readerVars, bufVars, sockVars, chunkVars,
                 respVars, formVars, relVars, hreq, sess, shared, tmr, pipe>>

FifoInit ==
    /\ FifoIdle
    /\ disk = EmptyDisk
    /\ nextPath = 1
    /\ FactoryIdle
    /\ ConnInit
    /\ CoreIdle /\ FormIdle /\ RelIdle /\ HeadIdle /\ SessIdle /\ ShIdle /\ TimerIdle /\ PipeIdle

\* the bytes in [bottom, top)
Buffered(b) == Slice(b.array, b.bottom, b.top)

\* buffer.push(data)
FifoPush ==
    /\ \E data \in BufPieces :
         /\ Len(fifo.pushed) + Len(data) <= MaxFifoPushed
         /\ fifo' = [fifo EXCEPT
                       !.buf = Push(fifo.buf, data),
                       !.pushed = fifo.pushed \o data,
                       !.op = [op |-> "push", res |-> <<>>, before |-> Buffered(fifo.buf)]]
    /\ UNCHANGED notFifoVars

\* buffer.pop(n)
FifoPop ==
    /\ \E n \in 0..MaxPiece :
         /\ Len(fifo.popped) + Len(Pop(fifo.buf, n).res) <= MaxPopped
         /\ fifo' = [fifo EXCEPT
                       !.buf = Pop(fifo.buf, n).buf,
                       !.popped = fifo.popped \o Pop(fifo.buf, n).res,
                       !.op = [op |-> "pop", res |-> Pop(fifo.buf, n).res,
                               before |-> Buffered(fifo.buf)]]
    /\ UNCHANGED notFifoVars

\* buffer.pop_line()
FifoPopLine ==
    /\ Len(fifo.popped) + Len(PopLine(fifo.buf).res) <= MaxPopped
    /\ fifo' = [fifo EXCEPT
                  !.buf = PopLine(fifo.buf).buf,
                  !.popped = fifo.popped \o PopLine(fifo.buf).res,
                  !.lines = TRUE,
                  !.op = [op |-> "pop_line", res |-> PopLine(fifo.buf).res,
                          before |-> Buffered(fifo.buf)]]
    /\ UNCHANGED notFifoVars

FifoNext == FifoPush \/ FifoPop \/ FifoPopLine

SpecFifo == FifoInit /\ [][FifoNext]_vars

IsPrefix(a, b) == Len(a) <= Len(b) /\ SubSeq(b, 1, Len(a)) = a

\* C32: after any sequence of push and pop the bytes the pops returned,
\* concatenated, are a prefix of the bytes pushed, concatenated, and
\* len(buffer) is the number of bytes pushed minus the number popped.
C32_PopsArePrefix ==
    ~fifo.lines =>
        /\ IsPrefix(fifo.popped, fifo.pushed)
        /\ BufLen(fifo.buf) = Len(fifo.pushed) - Len(fifo.popped)

\* what does hold: the length is kept by every push and pop, and the pops
\* return a prefix of the pushes as long as no push exceeded the capacity
\* while the first buffered byte was not at index 0
C32_LengthKept ==
    ~fifo.lines => BufLen(fifo.buf) = Len(fifo.pushed) - Len(fifo.popped)

\* a push that exceeded the capacity has run with earlier bytes buffered
\* behind the start of the array, and a pop has returned bytes since
C32_GrownWhileBuffered ==
    /\ ~fifo.lines
    /\ Len(fifo.buf.array) > InitSize
    /\ ~IsPrefix(fifo.popped, fifo.pushed)

\* the bytes of s up to and including its first LF
FirstLine(s) == SubSeq(s, 1, Find(s, LF, 0, Len(s)) + 1)

\* C33: pop_line returns the buffered bytes up to and including the first
\* LF, or all buffered bytes when there is no LF, which leaves the buffer
\* empty; what it returns followed by what stays buffered is what was
\* buffered before.
C33_PopLineExact ==
    fifo.op.op = "pop_line" =>
        /\ fifo.op.res = IF Find(fifo.op.before, LF, 0, Len(fifo.op.before)) >= 0
                         THEN FirstLine(fifo.op.before)
                         ELSE fifo.op.before
        /\ fifo.op.res \o Buffered(fifo.buf) = fifo.op.before

\* what does hold: when the buffered bytes hold an LF, pop_line returns and
\* removes exactly the bytes through the first LF
C33_LineFound ==
    (fifo.op.op = "pop_line" /\ Find(fifo.op.before, LF, 0, Len(fifo.op.before)) >= 0)
        => /\ fifo.op.res = FirstLine(fifo.op.before)
           /\ fifo.op.res \o Buffered(fifo.buf) = fifo.op.before

\* pop_line ran on buffered bytes without LF
C33_NoLineBuffered ==
    /\ fifo.op.op = "pop_line"
    /\ fifo.op.before # <<>>
    /\ Find(fifo.op.before, LF, 0, Len(fifo.op.before)) < 0

-----------------------------------------------------------------------------
(* Claims about BufferedSocket.read_line as a reader of lines *)

\* the bytes of the connection not yet handed to the caller: what is
\* buffered, then what the peer sent and recv has not taken
Unread(bs) == Buffered(bs.buffer) \o bs.stream

\* a line without its LF and without one CR before it
WithoutEnd(line) ==
    IF Len(line) >= 2 /\ line[Len(line) - 1] = CR
    THEN SubSeq(line, 1, Len(line) - 2)
    ELSE SubSeq(line, 1, Len(line) - 1)

\* the unread bytes begin with a line that fits the limit of read_line
LineWaiting(bs) ==
    /\ Find(Unread(bs), LF, 0, Len(Unread(bs))) >= 0
    /\ Len(FirstLine(Unread(bs))) <= MaxHeadersSize

\* a read_line call on unread bytes that begin with a line returns that
\* line, ends stripped, and leaves the bytes after it unread
C34_ReadLineStep ==
    (sockOp'.op = "read_line" /\ sockOp'.calls = sockOp.calls + 1 /\ LineWaiting(bsock))
        => /\ sockOp'.exc = "none"
           /\ sockOp'.lines[Len(sockOp'.lines)] = WithoutEnd(FirstLine(Unread(bsock)))
           /\ FirstLine(Unread(bsock)) \o Unread(bsock') = Unread(bsock)

\* C34: successive read_line calls return the successive lines of the
\* stream, each without its LF and with only a CR before it stripped, and
\* keep the bytes after the LF for later reads, however the connection cuts
\* the stream into pieces: no byte is lost, duplicated or reordered.
C34_LinesInOrder == [][C34_ReadLineStep]_vars

\* what does hold: a line of at least one byte before its LF that recv
\* delivers whole into an empty buffer is returned as the claim says
C34_WholeLineStep ==
    (/\ sockOp'.op = "read_line" /\ sockOp'.calls = sockOp.calls + 1
     /\ LineWaiting(bsock)
     /\ bsock.buffer.top = 0
     /\ Len(FirstLine(bsock.stream)) >= 2
     /\ Len(FirstLine(bsock.stream)) <= Min(bsock.seg, MaxReadOf(bsock)))
        => /\ sockOp'.exc = "none"
           /\ sockOp'.lines[Len(sockOp'.lines)] = WithoutEnd(FirstLine(Unread(bsock)))
           /\ FirstLine(Unread(bsock)) \o Unread(bsock') = Unread(bsock)

C34_WholeLine == [][C34_WholeLineStep]_vars

\* the first read_line on a connection has returned, without error, a line
\* that is not the first line the peer sent
C34_LineLost ==
    /\ sockOp.op = "read_line"
    /\ sockOp.exc = "none"
    /\ sockOp.calls = 1
    /\ sockOp.lines # <<sockOp.peer[1]>>

-----------------------------------------------------------------------------
(* Claims about switching a response body between sized and chunked *)

\* the tokens of Transfer-Encoding, none when the header is not set
TokensOf(r) == IF HasKey(r, "transfer-encoding") THEN r.te ELSE <<>>

\* a token that names the chunked coding, however it is spelled
IsChunkedToken(tok) == tok \in {"chunked", " chunked", "Chunked"}

\* the tokens other than chunked, as they are spelled
OtherTokens(r) == SelectSeq(TokensOf(r), LAMBDA tok : ~IsChunkedToken(tok))

\* hresp' is hresp after a set_body_stream that was asked for a sized body
\* (sized) or a chunked one
Switched(sized) ==
    /\ respOp'.exc = "none"
    /\ OtherTokens(hresp') = OtherTokens(hresp)
    /\ IF sized
       THEN /\ HasKey(hresp', "content-length")
            /\ \A i \in 1..Len(TokensOf(hresp')) : ~IsChunkedToken(TokensOf(hresp')[i])
       ELSE /\ ~HasKey(hresp', "content-length")
            /\ \E i \in 1..Len(TokensOf(hresp')) : IsChunkedToken(TokensOf(hresp')[i])

C35_SwitchStep ==
    (respOp'.op = "set_body_stream" /\ respOp'.calls = respOp.calls + 1)
        => Switched(respOp'.sized)

\* C35: set_body_stream without a size removes Content-Length and adds the
\* token chunked to Transfer-Encoding, with a size it sets Content-Length and
\* removes only the token chunked; the other tokens of Transfer-Encoding stay
\* as they were (same tokens, order and spelling) and the call never raises.
C35_SwitchKeepsTokens == [][C35_SwitchStep]_vars

\* what does hold: the same when every token that was there is in lower
\* case and has no blank before it
C35_LowerCaseStep ==
    (/\ respOp'.op = "set_body_stream" /\ respOp'.calls = respOp.calls + 1
     /\ \A i \in 1..Len(TokensOf(hresp)) : TokensOf(hresp)[i] \in {"gzip", "chunked"})
        => Switched(respOp'.sized)

C35_LowerCaseTokens == [][C35_LowerCaseStep]_vars

\* a switch to a sized body has raised
C35_SwitchRaised == respOp.op = "set_body_stream" /\ respOp.sized /\ respOp.exc = "ValueError"

-----------------------------------------------------------------------------
(* Claims about the touch of get_session *)

\* the key the last get_session looked up
GotKey == B64Hash(Token(sess'.op.key))

\* C36: a get_session that returns a session touches its record: the expiry
\* of the record becomes the time of the get plus the TTL, so that a get
\* within one TTL of it finds the session again; every other record is
\* still there after the get, with the value and the expiry it had.
C36_TouchStep ==
    (sess'.op.op = "get_session" /\ sess'.op.res # None)
        => /\ GotKey \in DOMAIN sess'.store.dict
           /\ sess'.store.dict[GotKey] = <<sess'.op.res, sess'.now + SessionTTL>>
           /\ DOMAIN sess'.store.dict = DOMAIN sess.store.dict
           /\ \A k \in (DOMAIN sess.store.dict) \ {GotKey} :
                 sess'.store.dict[k] = sess.store.dict[k]

C36_GetTouchesOnlyItsRecord == [][C36_TouchStep]_vars

\* a get has returned a session while the store holds another record, whose
\* expiry is not the one the get has just set
C36_OtherRecordKept ==
    /\ sess.op.op = "get_session"
    /\ sess.op.res # None
    /\ \E k \in DOMAIN sess.store.dict :
          /\ k # B64Hash(Token(sess.op.key))
          /\ sess.store.dict[k][2] # sess.now + SessionTTL

-----------------------------------------------------------------------------
(* Claims about the size of what FormReader.read returns *)

\* the bytes the reader has not handed out: its buffer, then the rest of the
\* inner stream
FormUnread(f) == Buffered(f.fr.buffer) \o SubSeq(f.data, f.fr.pos + 1, Len(f.data))

\* the closing boundary of the field starts within the first n unread bytes
BoundaryWithin(f) ==
    /\ FindSeq(FormUnread(f), boundary_with_nl) # -1
    /\ FindSeq(FormUnread(f), boundary_with_nl) <= f.n

\* a read(n) call returns at most n bytes; made inside a field, it sets
\* field_end exactly when the boundary starts within the n bytes it was asked
\* for, and it returns the bytes before the boundary
C37_ReadStep ==
    formOp'.op = "read" =>
        /\ Len(form'.got) - Len(form.got) <= form.n
        /\ ~form.fr.field_end =>
              /\ form'.fr.field_end <=> BoundaryWithin(form)
              /\ BoundaryWithin(form) =>
                    form'.got = form.got
                        \o SubSeq(FormUnread(form), 1, FindSeq(FormUnread(form), boundary_with_nl))

-----------------------------------------------------------------------------
(* Claims about repeated lines in the header block *)

\* how many lines of the block carry the header key
LinesWith(wire, key) ==
    Cardinality({i \in 1..Len(wire) : wire[i] = [kind |-> "header", key |-> key]})

\* C38: in the block get_header_string returns every header key of the
\* response is on at most one line, whatever the body (none, sized, chunked)
\* and whatever headers the handler set.
C38_KeyEmittedOnce ==
    (respOp.op = "get_header_string" /\ respOp.exc = "none")
        => \A k \in 1..Len(hresp.order) : LinesWith(respOp.wire, hresp.order[k]) <= 1

\* what does hold: every key other than Transfer-Encoding is on exactly one
\* line; with the default header order Transfer-Encoding is on two
C38_OtherKeysOnce ==
    (respOp.op = "get_header_string" /\ respOp.exc = "none")
        => \A k \in 1..Len(hresp.order) :
              LinesWith(respOp.wire, hresp.order[k])
                  = IF hresp.order[k] = "transfer-encoding" /\ hresp.last = last_headers
                    THEN 2 ELSE 1

\* the block of a response with a chunked body has been made
C38_ChunkedBlock ==
    /\ respOp.op = "get_header_string"
    /\ respOp.exc = "none"
    /\ hresp.body.set
    /\ IsChunked(hresp)

-----------------------------------------------------------------------------
(* The budgets of an HttpSocketWrapper while requests are read (SpecTimer) *)

notTimerVars == <<factoryVars, connVars, bodyVars, readerVars, bufVars, sockVars, chunkVars,
                  respVars, formVars, relVars, hreq, sess, shared, fifo, pipe>>

TimerInit ==
    /\ TimerIdle
    /\ disk = EmptyDisk
    /\ nextPath = 1
    /\ FactoryIdle
    /\ ConnInit
    /\ CoreIdle /\ FormIdle /\ RelIdle /\ HeadIdle /\ SessIdle /\ ShIdle /\ FifoIdle /\ PipeIdle

\* get_request: _get_headers_strings resets the budgets and reads the request
\* line; the request that the peer sends has no body, a body of left bytes
\* or a chunked body, with or without a Trailer header
TmBegin ==
    /\ tmr.phase \in {"idle", "done"}
    /\ tmr.requests < MaxRequests
    /\ \E elapsed \in 0..MaxElapsed, body \in {"none", "sized", "chunked"},
          trailer \in BOOLEAN, left \in 0..MaxContentLength :
         /\ (body = "sized") = (left > 0)
         /\ trailer => body = "chunked"
         /\ tmr' = ReadStuff([ResetTimers(tmr) EXCEPT
                                !.phase = "headers", !.body = body, !.trailer = trailer,
                                !.left = left, !.lines = 1, !.chunks = 0, !.mid = TRUE,
                                !.code = 0, !.requests = tmr.requests + 1],
                             elapsed)
    /\ UNCHANGED notTimerVars

\* _read_body once the headers are read: without a body it returns before
\* its reset_timers
BodyBegins(t) ==
    IF t.body = "none" THEN [t EXCEPT !.phase = "done", !.mid = FALSE]
    ELSE [t EXCEPT !.phase = t.body]

\* _get_headers_strings, line 97: one more header line, or the empty line
\* that ends the block
TmHeaderLine ==
    /\ tmr.phase = "headers"
    /\ \E elapsed \in 0..MaxElapsed, empty \in BOOLEAN :
         /\ ~empty => tmr.lines < MaxLines
         /\ tmr' = IF ReadStuff(tmr, elapsed).phase = "error" THEN ReadStuff(tmr, elapsed)
                   ELSE IF empty THEN BodyBegins(ReadStuff(tmr, elapsed))
                   ELSE [ReadStuff(tmr, elapsed) EXCEPT !.lines = tmr.lines + 1]
    /\ UNCHANGED notTimerVars

\* the reader after __read_chunk received n of the bytes it waits for
Received(t, n, then) ==
    IF t.left - n > 0 THEN [t EXCEPT !.left = t.left - n]
    ELSE IF then = "done" THEN BodyComplete([t EXCEPT !.left = 0])
    ELSE [t EXCEPT !.left = 0, !.phase = then]

\* __read_chunk, line 119, for a body with Content-Length
TmReadSized ==
    /\ tmr.phase = "sized"
    /\ \E elapsed \in 0..MaxElapsed, n \in 1..Min(BytesRead, tmr.left) :
         tmr' = IF ReadStuff(tmr, elapsed).phase = "error" THEN ReadStuff(tmr, elapsed)
                ELSE Received(ReadStuff(tmr, elapsed), n, "done")
    /\ UNCHANGED notTimerVars

\* __read_body_chunked, lines 104-115, once the length line was read: at the
\* zero length of a request with Trailer it calls _get_headers_strings, whose
\* first statement is reset_timers
LengthRead(t, length) ==
    IF t.size - length = 0
    THEN [t EXCEPT !.size = 0, !.phase = "error", !.code = PAYLOAD_TOO_LARGE, !.mid = FALSE]
    ELSE IF length = 0
    THEN IF t.trailer THEN [ResetTimers(t) EXCEPT !.phase = "trailers", !.lines = 0]
         ELSE [t EXCEPT !.phase = "last_line"]
    ELSE [t EXCEPT !.size = t.size - length, !.phase = "chunk_data", !.left = length,
                   !.chunks = t.chunks + 1]

\* __read_body_chunked, line 103: the line with the length of the next chunk
TmReadLength ==
    /\ tmr.phase = "chunked"
    /\ \E elapsed \in 0..MaxElapsed, length \in 0..MaxPiece :
         /\ length > 0 => tmr.chunks < MaxChunks
         /\ tmr' = IF ReadStuff(tmr, elapsed).phase = "error" THEN ReadStuff(tmr, elapsed)
                   ELSE LengthRead(ReadStuff(tmr, elapsed), length)
    /\ UNCHANGED notTimerVars

\* __read_chunk, line 119, for the data of one chunk
TmReadChunkData ==
    /\ tmr.phase = "chunk_data"
    /\ \E elapsed \in 0..MaxElapsed, n \in 1..Min(BytesRead, tmr.left) :
         tmr' = IF ReadStuff(tmr, elapsed).phase = "error" THEN ReadStuff(tmr, elapsed)
                ELSE Received(ReadStuff(tmr, elapsed), n, "chunked")
    /\ UNCHANGED notTimerVars

\* __read_body_chunked, line 111: the line after the last chunk
TmLastLine ==
    /\ tmr.phase = "last_line"
    /\ \E elapsed \in 0..MaxElapsed :
         tmr' = IF ReadStuff(tmr, elapsed).phase = "error" THEN ReadStuff(tmr, elapsed)
                ELSE BodyComplete(ReadStuff(tmr, elapsed))
    /\ UNCHANGED notTimerVars

\* _get_headers_strings called for the trailers: one more line, or the empty
\* line after which the body is complete
TmTrailerLine ==
    /\ tmr.phase = "trailers"
    /\ \E elapsed \in 0..MaxElapsed, empty \in BOOLEAN :
         /\ ~empty => tmr.lines < MaxLines
         /\ tmr' = IF ReadStuff(tmr, elapsed).phase = "error" THEN ReadStuff(tmr, elapsed)
                   ELSE IF empty THEN BodyComplete(ReadStuff(tmr, elapsed))
                   ELSE [ReadStuff(tmr, elapsed) EXCEPT !.lines = tmr.lines + 1]
    /\ UNCHANGED notTimerVars

TimerNext ==
    \/ TmBegin \/ TmHeaderLine \/ TmReadSized \/ TmReadLength \/ TmReadChunkData
    \/ TmLastLine \/ TmTrailerLine

SpecTimer == TimerInit /\ [][TimerNext]_vars

\* between two reads of one request neither budget grows
C31_Step ==
    (tmr.mid /\ tmr'.mid) => (tmr'.time <= tmr.time /\ tmr'.size <= tmr.size)

\* C31: the budgets are reset before each request and not in the middle of
\* one: from the first header line of a request until its body is complete
\* the remaining time and the remaining size never increase, also while the
\* trailers of a chunked body are read.
C31_BudgetsNeverIncrease == [][C31_Step]_vars

\* what does hold: the same for every request without a Trailer header, and
\* every request starts with full budgets
C31_NoTrailerStep ==
    /\ (tmr.mid /\ tmr'.mid /\ ~tmr.trailer)
          => (tmr'.time <= tmr.time /\ tmr'.size <= tmr.size)
    /\ (~tmr.mid /\ tmr'.mid) => tmr'.time + MaxElapsed >= RequestTimeout

C31_NoTrailer == [][C31_NoTrailerStep]_vars

\* the trailers of a chunked body are being read with a budget that is
\* larger than what the chunks have left
C31_ResetInTrailers ==
    /\ tmr.phase = "trailers"
    /\ tmr.chunks > 0
    /\ tmr.size = MaxContentLength

-----------------------------------------------------------------------------
(* get_request on a connection that carries two requests (SpecPipe)        *)

notPipeVars == <<factoryVars, connVars, bodyVars, readerVars, bufVars, sockVars, chunkVars,
                 respVars, formVars, relVars, hreq, sess, shared, fifo, tmr>>

\* HttpSocketWrapper.max_headers_size
max_headers_size == 32000

\* the bytes of ' ' and ':'
SP == 32
Colon == 58

\* socket_wrapper.methods, as bytes
MethodBytes ==
    {<<71, 69, 84>>,
     <<80, 79, 83, 84>>,
     <<72, 69, 65, 68>>,
     <<80, 85, 84>>,
     <<68, 69, 76, 69, 84, 69>>,
     <<84, 82, 65, 67, 69>>,
     <<80, 65, 84, 67, 72>>,
     <<79, 80, 84, 73, 79, 78, 83>>,
     <<67, 79, 78, 78, 69, 67, 84>>}

\* header_keys.TRANSFER_ENCODING
TRANSFER_ENCODING_KEY ==
    <<84, 114, 97, 110, 115, 102, 101, 114, 45, 69, 110, 99, 111, 100, 105,
      110, 103>>

\* header_keys.CONTENT_LENGTH
CONTENT_LENGTH_KEY ==
    <<67, 111, 110, 116, 101, 110, 116, 45, 76, 101, 110, 103, 116, 104>>

\* header_keys.TRAILER
TRAILER_KEY ==
    <<84, 114, 97, 105, 108, 101, 114>>

\* 'chunked'
ChunkedValue ==
    <<99, 104, 117, 110, 107, 101, 100>>

\* how often byte is in line
CountOf(line, byte) == Cardinality({i \in 1..Len(line) : line[i] = byte})

\* split_two(string, splitter): both halves stripped
SplitTwo(line, splitter) ==
    [key |-> Strip(Slice(line, 0, Find(line, splitter, 0, Len(line)))),
     value |-> Strip(Slice(line, Find(line, splitter, 0, Len(line)) + 1, Len(line)))]

\* headers.get(key) for the dict that get_request fills from the lines after
\* the first one: the last line with that key counts, <<>> stands for None
RECURSIVE WireHeaderGet(_, _)
WireHeaderGet(lines, key) ==
    IF Len(lines) <= 1 THEN <<>>
    ELSE IF SplitTwo(lines[Len(lines)], Colon).key = key
    THEN SplitTwo(lines[Len(lines)], Colon).value
    ELSE WireHeaderGet(SubSeq(lines, 1, Len(lines) - 1), key)

\* the value of one decimal digit, -1 for any other byte
DecValue(byte) == IF byte \in 48..57 THEN byte - 48 ELSE -1

RECURSIVE DecNumber(_, _)
DecNumber(digits, value) ==
    IF digits = <<>> THEN value
    ELSE IF DecValue(Head(digits)) = -1 THEN -1
    ELSE DecNumber(Tail(digits), 10 * value + DecValue(Head(digits)))

\* check_content_headers, lines 33-34: int(length) if length else 0, -1
\* where int raises ValueError
LengthOf(value) == IF value = <<>> THEN 0 ELSE DecNumber(value, 0)

\* _read_body, lines 130-139, once the body was read
BodyRead(rb, lines) ==
    [sock |-> rb.sock, lines |-> lines, body |-> rb.body, exc |-> rb.exc]

\* _read_body for the headers of lines, read from bs
ReadBodyWire(bs, lines, transfer, length) ==
    IF length = -1 THEN [sock |-> bs, lines |-> lines, body |-> <<>>, exc |-> "HttpError411"]
    ELSE IF length > max_content_length
    THEN [sock |-> bs, lines |-> lines, body |-> <<>>, exc |-> "HttpError413"]
    ELSE IF transfer # ChunkedValue /\ length = 0
    THEN [sock |-> bs, lines |-> lines, body |-> <<>>, exc |-> "none"]
    ELSE IF transfer # ChunkedValue
    THEN BodyRead(ReadChunkWire(bs, <<>>, length), lines)
    ELSE IF WireHeaderGet(lines, TRAILER_KEY) # <<>>
    THEN [sock |-> bs, lines |-> lines, body |-> <<>>, exc |-> "trailers"]
    ELSE BodyRead(ReadBodyChunkedWire(bs, <<>>, max_content_length), lines)

\* get_request, lines 164-186, once the header lines were read
WireHeadersRead(h) ==
    IF h.exc # "none"
    THEN [sock |-> h.sock, lines |-> h.lines, body |-> <<>>, exc |-> ReadStuffError(h.exc)]
    ELSE IF h.lines = <<>>
    THEN [sock |-> h.sock, lines |-> h.lines, body |-> <<>>, exc |-> "IndexError"]
    ELSE IF CountOf(h.lines[1], SP) # 2
    THEN [sock |-> h.sock, lines |-> h.lines, body |-> <<>>, exc |-> "HttpError400"]
    ELSE IF SplitTwo(h.lines[1], SP).key \notin MethodBytes
    THEN [sock |-> h.sock, lines |-> h.lines, body |-> <<>>, exc |-> "ValueError"]
    ELSE IF \E i \in 2..Len(h.lines) : CountOf(h.lines[i], Colon) = 0
    THEN [sock |-> h.sock, lines |-> h.lines, body |-> <<>>, exc |-> "HttpError400"]
    ELSE ReadBodyWire(h.sock, h.lines, WireHeaderGet(h.lines, TRANSFER_ENCODING_KEY),
                      LengthOf(WireHeaderGet(h.lines, CONTENT_LENGTH_KEY)))

\* ServerSocketWrapper.get_request on the connection bs
GetRequestWire(bs) == WireHeadersRead(GetHeadersStrings(bs, max_headers_size))

\* a request without headers
WireGet ==
    <<71, 69, 84, 32, 47, 97, 32, 72, 84, 84, 80, 47, 49, 46, 49, 13, 10, 13,
      10>>

\* a request with one header
WireHost ==
    <<71, 69, 84, 32, 47, 97, 32, 72, 84, 84, 80, 47, 49, 46, 49, 13, 10, 72,
      58, 97, 13, 10, 13, 10>>

\* a request with a body of three bytes
WireLength ==
    <<80, 85, 84, 32, 47, 97, 32, 72, 84, 84, 80, 47, 49, 46, 49, 13, 10, 67,
      111, 110, 116, 101, 110, 116, 45, 76, 101, 110, 103, 116, 104, 58, 32,
      51, 13, 10, 13, 10, 97, 98, 99>>

\* a request with an empty chunked body
WireEmptyChunked ==
    <<80, 85, 84, 32, 47, 97, 32, 72, 84, 84, 80, 47, 49, 46, 49, 13, 10, 84,
      114, 97, 110, 115, 102, 101, 114, 45, 69, 110, 99, 111, 100, 105, 110,
      103, 58, 32, 99, 104, 117, 110, 107, 101, 100, 13, 10, 13, 10, 48, 13,
      10, 13, 10>>

\* a request with a chunked body of one chunk
WireOneChunk ==
    <<80, 85, 84, 32, 47, 97, 32, 72, 84, 84, 80, 47, 49, 46, 49, 13, 10, 84,
      114, 97, 110, 115, 102, 101, 114, 45, 69, 110, 99, 111, 100, 105, 110,
      103, 58, 32, 99, 104, 117, 110, 107, 101, 100, 13, 10, 13, 10, 51, 13,
      10, 97, 98, 99, 13, 10, 48, 13, 10, 13, 10>>

\* the request that follows on the same connection
WireSecond ==
    <<71, 69, 84, 32, 47, 98, 32, 72, 84, 84, 80, 47, 49, 46, 49, 13, 10, 13,
      10>>

FirstRequests == {WireGet, WireHost, WireLength, WireEmptyChunked, WireOneChunk}

\* the header lines of a request as the peer wrote them
RECURSIVE LinesOfWire(_, _)
LinesOfWire(wire, line) ==
    IF wire = <<>> THEN <<>>
    ELSE IF Head(wire) = LF
    THEN IF line = <<CR>> THEN <<>>
         ELSE <<SubSeq(line, 1, Len(line) - 1)>> \o LinesOfWire(Tail(wire), <<>>)
    ELSE LinesOfWire(Tail(wire), Append(line, Head(wire)))

\* the connection as the peer left it
PipeSocket == BufferedSocketNew(pipe.wire \o pipe.second, pipe.seg, max_read_unit, buffer_len)

PipeInit ==
    /\ \E wire \in FirstRequests, seg \in 1..MaxSeg :
          pipe = [NoPipe EXCEPT !.wire = wire, !.second = WireSecond, !.seg = seg]
    /\ disk = EmptyDisk
    /\ nextPath = 1
    /\ FactoryIdle
    /\ ConnInit
    /\ CoreIdle /\ FormIdle /\ RelIdle /\ HeadIdle /\ SessIdle /\ ShIdle /\ FifoIdle /\ TimerIdle

\* handle_client: the first get_request on the connection
PipeGetRequest ==
    /\ pipe.calls = 0
    /\ pipe' = [pipe EXCEPT !.calls = 1,
                            !.lines = GetRequestWire(PipeSocket).lines,
                            !.body = GetRequestWire(PipeSocket).body,
                            !.exc = GetRequestWire(PipeSocket).exc,
                            !.rest = Unread(GetRequestWire(PipeSocket).sock)]
    /\ UNCHANGED notPipeVars

\* handle_client: the next get_request on the same connection
PipeGetNext ==
    /\ pipe.calls = 1
    /\ pipe.exc = "none"
    /\ pipe' = [pipe EXCEPT !.calls = 2,
                            !.lines2 = GetRequestWire(GetRequestWire(PipeSocket).sock).lines,
                            !.exc2 = GetRequestWire(GetRequestWire(PipeSocket).sock).exc,
                            !.rest2 = Unread(GetRequestWire(GetRequestWire(PipeSocket).sock).sock)]
    /\ UNCHANGED notPipeVars

PipeNext == PipeGetRequest \/ PipeGetNext

SpecPipe == PipeInit /\ [][PipeNext]_vars

\* C39: reading one request consumes from the connection exactly the bytes
\* of that request; the bytes that arrived after it stay buffered in order
\* and are the first bytes that the next get_request sees.
C39_ExactlyOneRequest ==
    (pipe.calls >= 1 /\ pipe.exc = "none") => pipe.rest = pipe.second

\* what does hold: the bytes written after the request are not lost, they
\* are the end of what is left; and when one recv delivers everything, a
\* request without body or with Content-Length is consumed exactly
C39_SecondKept ==
    (pipe.calls >= 1 /\ pipe.exc = "none")
        => /\ Len(pipe.rest) >= Len(pipe.second)
           /\ SubSeq(pipe.rest, Len(pipe.rest) - Len(pipe.second) + 1, Len(pipe.rest)) = pipe.second
           /\ (pipe.seg >= Len(pipe.wire \o pipe.second) /\ pipe.wire # WireOneChunk)
                 => pipe.rest = pipe.second

\* the request was read as the peer wrote it, and its header line is still
\* in front of the next request
C39_HeaderLeftBehind ==
    /\ pipe.calls = 2
    /\ pipe.wire = WireHost
    /\ pipe.exc = "none"
    /\ pipe.lines = LinesOfWire(pipe.wire, <<>>)
    /\ pipe.rest # pipe.second
    /\ pipe.exc2 # "none"

-----------------------------------------------------------------------------
(* FormReader.read() and the skip of next_field, statement by statement,   *)
(* on streams that may end anywhere (SpecDrain).  formOp is the call in    *)
(* progress: kind tells whether read was called with the default size     *)
(* ("all") or by __skip_to_end ("skip"), a and buff are its local values.  *)

\* the streams tried: every multipart stream of one field and every
\* beginning of it
DrainStreams ==
    UNION {{SubSeq(FormStream(fields), 1, k) : k \in 0..Len(FormStream(fields))} :
              fields \in FormFields(1)}

NoDrainOp == [op |-> "init", kind |-> "none", a |-> <<>>, buff |-> <<>>]

DrainInit ==
    /\ \E data \in DrainStreams : form = [FormState(<<>>, 1) EXCEPT !.data = data]
    /\ formOp = NoDrainOp
    /\ pform = NoParse
    /\ disk = EmptyDisk
    /\ nextPath = 1
    /\ FactoryIdle
    /\ ConnInit
    /\ CoreIdle /\ RelIdle /\ HeadIdle /\ SessIdle /\ ShIdle /\ FifoIdle /\ TimerIdle /\ PipeIdle

\* next_field() while no field is open: nothing has to be skipped
DrNextField ==
    /\ formOp.op \in {"init", "returned"}
    /\ ~form.ended
    /\ form.fr.field_end
    /\ form' = AfterNextField(NextField(form.fr, form.data))
    /\ formOp' = [NoDrainOp EXCEPT !.op = "next_field",
                                   !.kind = NextField(form.fr, form.data).kind]
    /\ UNCHANGED <<pform, notFormVars>>

\* next_field() on a field that was not read to its end, line 193:
\* __skip_to_end calls read(1024)
DrSkipBegin ==
    /\ formOp.op = "next_field"
    /\ formOp.kind = "metadata"
    /\ ~form.fr.field_end
    /\ formOp' = [NoDrainOp EXCEPT !.op = "read_a", !.kind = "skip"]
    /\ UNCHANGED <<form, pform, notFormVars>>

\* read() with the default size, lines 148-150: t is empty
DrReadBegin ==
    /\ formOp.op = "next_field"
    /\ formOp.kind = "metadata"
    /\ form' = [form EXCEPT !.got = <<>>]
    /\ formOp' = [NoDrainOp EXCEPT !.op = IF form.fr.field_end THEN "returned" ELSE "read_a",
                                   !.kind = "all"]
    /\ UNCHANGED <<pform, notFormVars>>

\* read, lines 152-155: a = self.__read(1024), for the default size and for
\* the 1024 of __skip_to_end alike
DrReadA ==
    /\ formOp.op = "read_a"
    /\ form' = [form EXCEPT !.fr = FormReadBytes(form.fr, form.data, 1024).fr]
    /\ formOp' = [formOp EXCEPT !.op = "read_buff",
                                !.a = FormReadBytes(form.fr, form.data, 1024).res]
    /\ UNCHANGED <<pform, notFormVars>>

\* read, line 156: buff = self.__read(len(self.boundary_with_nl))
DrReadBuff ==
    /\ formOp.op = "read_buff"
    /\ form' = [form EXCEPT
                  !.fr = FormReadBytes(form.fr, form.data, Len(boundary_with_nl)).fr]
    /\ formOp' = [formOp EXCEPT
                    !.op = "read_check",
                    !.buff = FormReadBytes(form.fr, form.data, Len(boundary_with_nl)).res]
    /\ UNCHANGED <<pform, notFormVars>>

\* where read goes after lines 157-168, w being what these lines made of a
\* and buff: with the default size it returns only at the boundary, else it
\* goes round again; __skip_to_end goes round until a read gives nothing,
\* which the read of a field that has ended does at once (line 148)
AfterCheck(kind, w) ==
    IF kind = "all" THEN (IF w.fr.field_end THEN "returned" ELSE "read_a")
    ELSE IF w.res = <<>> \/ w.fr.field_end THEN "skipped" ELSE "read_a"

\* read, lines 157-168: the boundary is looked for in a + buff
DrReadCheck ==
    /\ formOp.op = "read_check"
    /\ form' = [form EXCEPT
                  !.fr = FormReadWindow(form.fr, formOp.a, formOp.buff,
                                        FindSeq(formOp.a \o formOp.buff, boundary_with_nl)).fr,
                  !.got = form.got
                            \o FormReadWindow(form.fr, formOp.a, formOp.buff,
                                              FindSeq(formOp.a \o formOp.buff,
                                                      boundary_with_nl)).res]
    /\ formOp' = [NoDrainOp EXCEPT
                    !.op = AfterCheck(formOp.kind,
                                      FormReadWindow(form.fr, formOp.a, formOp.buff,
                                                     FindSeq(formOp.a \o formOp.buff,
                                                             boundary_with_nl))),
                    !.kind = formOp.kind]
    /\ UNCHANGED <<pform, notFormVars>>

\* next_field, lines 194-209, after the skip
DrSkipped ==
    /\ formOp.op = "skipped"
    /\ form' = AfterNextField(FieldStart(FormReadBytes(form.fr, form.data, 2), form.data))
    /\ formOp' = [NoDrainOp EXCEPT
                    !.op = "next_field",
                    !.kind = FieldStart(FormReadBytes(form.fr, form.data, 2), form.data).kind]
    /\ UNCHANGED <<pform, notFormVars>>

DrainNext ==
    \/ DrNextField \/ DrSkipBegin \/ DrReadBegin \/ DrReadA \/ DrReadBuff \/ DrReadCheck
    \/ DrSkipped

SpecDrain == DrainInit /\ [][DrainNext]_vars

\* a call that is running executes its next statement
SpecDrainLive ==
    SpecDrain /\ WF_vars(DrReadA) /\ WF_vars(DrReadBuff) /\ WF_vars(DrReadCheck)

\* C40: read() with the default size and the skip that next_field makes of
\* an unfinished field terminate for every input stream, also for a stream
\* that reaches its end without a closing boundary.
C40_LoopsTerminate ==
    /\ (formOp.op = "read_a" /\ formOp.kind = "all") ~> (formOp.op = "returned")
    /\ (formOp.op = "read_a" /\ formOp.kind = "skip") ~> (formOp.op = "skipped")

\* the closing boundary of the open field is still ahead
BoundaryAhead(f) == FindSeq(FormUnread(f), boundary_with_nl) # -1

\* what does hold: the skip always terminates, and read() terminates when
\* the boundary that closes the field is in the stream
C40_SkipTerminates ==
    /\ (formOp.op = "read_a" /\ formOp.kind = "skip") ~> (formOp.op = "skipped")
    /\ (formOp.op = "read_a" /\ formOp.kind = "all" /\ BoundaryAhead(form))
          ~> (formOp.op = "returned")

\* read() is at the head of its loop at the end of a stream that has no
\* closing boundary: everything was read and nothing is left
C40_SpinningAtEnd ==
    /\ formOp.op = "read_a"
    /\ formOp.kind = "all"
    /\ FormUnread(form) = <<>>
    /\ form.got # <<>>

===========================================================================
